---- MODULE Spec2Model ----
(***************************************************************************)
(* A model of the article store of rss-reader (src/src/db.rs) and of the   *)
(* display layers that read it back (src/src/server.rs, src/src/tui).      *)
(*                                                                         *)
(* Strings are sequences of chunks.  A chunk is a record: [c |-> "lit"] is *)
(* a piece of literal text, [sha256 |-> s] is the 64 hex characters of the *)
(* SHA-256 digest of the string s (the digest is taken to be free of        *)
(* collisions, so the chunk is determined by s and determines s),          *)
(* [utc |-> h] is the RFC 3339 rendering of the instant h hours after      *)
(* 2024-01-01T00:00:00+00:00, and [now |-> TRUE] is the rendering of the   *)
(* wall clock.  format!() is concatenation.  An Option is a sequence of    *)
(* length 0 (None) or 1 (Some).                                            *)
(***************************************************************************)
EXTENDS Integers, Sequences, FiniteSets, TLC

VARIABLES
    files,      \* store_dir: artifact filename -> contents (a partial map)
    images,     \* image_dir: image filename -> bytes (a partial map)
    index,      \* index.csv: the sequence of its rows
    tasks,      \* the store_channel calls: task id -> its position and locals
    faults,     \* how many filesystem operations have failed so far
    net,        \* how many image requests have been sent so far
    cache,      \* server: AppState.cache, feed index -> Option<Channel>
    reqs,       \* server: the requests being handled
    app,        \* tui: the App
    probe       \* the inputs the pure-function specifications draw

storeVars == <<files, images, index>>
clientVars == <<cache, reqs, app, probe>>
vars == <<files, images, index, tasks, faults, net, cache, reqs, app, probe>>

----------------------------------------------------------------------------
(* Bounds of the model *)

MaxTasks == 2       \* concurrent store_channel calls
MaxFaults == 1      \* filesystem operations that fail in one behaviour
MaxStrLen == 2      \* length of the strings the naming specification draws
MaxReqs == 1        \* requests the server handles at a time
MaxScroll == 1      \* lines the article view is scrolled down

----------------------------------------------------------------------------
(* Strings and options *)

None == <<>>
Some(x) == <<x>>
IsSome(o) == Len(o) = 1
Unwrap(o) == o[1]
UnwrapOr(o, d) == IF IsSome(o) THEN o[1] ELSE d

Chr(s) == [c |-> s]
Lit(s) == <<Chr(s)>>
EmptyStr == <<>>

\* s[i..] starts with pat
StartsAt(s, i, pat) ==
    /\ i + Len(pat) - 1 <= Len(s)
    /\ \A j \in 1..Len(pat) : s[i + j - 1] = pat[j]

\* str::contains
Contains(s, pat) == \E i \in 1..(Len(s) + 1) : StartsAt(s, i, pat)

\* str::replace: every non-overlapping occurrence of pat, leftmost first
RECURSIVE ReplaceFrom(_, _, _, _)
ReplaceFrom(s, i, pat, rep) ==
    IF i > Len(s) THEN <<>>
    ELSE IF Len(pat) > 0 /\ StartsAt(s, i, pat)
         THEN rep \o ReplaceFrom(s, i + Len(pat), pat, rep)
         ELSE <<s[i]>> \o ReplaceFrom(s, i + 1, pat, rep)

StrReplace(s, pat, rep) == ReplaceFrom(s, 1, pat, rep)

----------------------------------------------------------------------------
(* Hashing and naming: db.rs 160-174, 279-325 *)

\* chrono: a publish date is text in RFC 2822 form, in RFC 3339 form, or
\* neither; a well-formed one gives a local time and an offset, in hours.
Rfc2822(local, off) == [fmt |-> "rfc2822", local |-> local, off |-> off]
Rfc3339(local, off) == [fmt |-> "rfc3339", local |-> local, off |-> off]
BadDate(k) == [fmt |-> "bad", local |-> k, off |-> 0]

\* (mutant) the offset the date was written with is kept
to_rfc3339_keeping_offset(d) == <<[utc |-> d.local, off |-> d.off]>>

\* DateTime::with_timezone(&Utc).to_rfc3339()
to_rfc3339_utc(d) == <<[utc |-> d.local - d.off]>>

parse_pub_date(input) ==
    IF ~IsSome(input) THEN None
    ELSE IF Unwrap(input).fmt \in {"rfc2822", "rfc3339"}
         THEN Some(to_rfc3339_utc(Unwrap(input)))
         ELSE None

hash_string(input) == <<[sha256 |-> input]>>

\* (mutant) the title is left out of the digest
item_filename_without_title(feed_name, feed_url, title, link, time) ==
    LET hash_input == feed_name \o Lit("|") \o feed_url \o Lit("|")
                      \o link \o Lit("|") \o time
    IN  hash_string(hash_input) \o Lit(".md")

item_filename(feed_name, feed_url, title, link, time) ==
    LET hash_input == feed_name \o Lit("|") \o feed_url \o Lit("|") \o title
                      \o Lit("|") \o link \o Lit("|") \o time
    IN  hash_string(hash_input) \o Lit(".md")

\* Url::parse and Url::scheme: the first chunk of an absolute URL is its
\* scheme with "://"; anything else does not parse (a relative reference).
url_scheme(url) ==
    IF Len(url) = 0 THEN None
    ELSE IF url[1] = Chr("https://") THEN Some("https")
    ELSE IF url[1] = Chr("http://") THEN Some("http")
    ELSE IF url[1] = Chr("ftp://") THEN Some("ftp")
    ELSE None

\* Path::new(parsed.path()).extension(): the chunk after a final "."
url_path_extension(url) ==
    IF Len(url) >= 3 /\ url[Len(url) - 1] = Chr(".") THEN Some(url[Len(url)].c)
    ELSE None

to_ascii_lowercase(ext) ==
    CASE ext = "PNG" -> "png"
      [] ext = "JPG" -> "jpg"
      [] ext = "JPEG" -> "jpeg"
      [] OTHER -> ext

owned_extension(ext) ==
    LET e == to_ascii_lowercase(ext)
    IN  CASE e = "png" -> "png"
          [] e = "jpeg" -> "jpg"
          [] e = "jpg" -> "jpg"
          [] e = "webp" -> "webp"
          [] e = "gif" -> "gif"
          [] e = "svg" -> "svg"
          [] e = "svgz" -> "svg"
          [] OTHER -> "img"

content_type_extension(content_type) ==
    IF ~IsSome(content_type) THEN None
    ELSE LET ct == Unwrap(content_type)
         IN  IF Contains(ct, Lit("image/png")) THEN Some("png")
             ELSE IF Contains(ct, Lit("image/jpeg")) THEN Some("jpg")
             ELSE IF Contains(ct, Lit("image/jpg")) THEN Some("jpg")
             ELSE IF Contains(ct, Lit("image/webp")) THEN Some("webp")
             ELSE IF Contains(ct, Lit("image/gif")) THEN Some("gif")
             ELSE IF Contains(ct, Lit("image/svg+xml")) THEN Some("svg")
             ELSE None

\* (mutant) the URL's path suffix is not consulted
image_extension_content_type_only(url, content_type) ==
    content_type_extension(content_type)

image_extension(url, content_type) ==
    IF IsSome(url_scheme(url)) /\ IsSome(url_path_extension(url))
    THEN Some(owned_extension(Unwrap(url_path_extension(url))))
    ELSE content_type_extension(content_type)

image_filename(url, content_type) ==
    LET ext == UnwrapOr(image_extension(url, content_type), "img")
    IN  hash_string(url) \o Lit(".") \o Lit(ext)

\* format!("/images/{}", filename)
local_reference(filename) == Lit("/images/") \o filename

----------------------------------------------------------------------------
(* Article text: db.rs 142-154, 237-277 *)

\* An HTML payload is a sequence of nodes: a run of text, or an img element
\* (sized: it carries a width, height or align attribute).  The converted
\* text is a sequence of segments: a run of text, an image in the bracket
\* form ![alt](s), or a raw tag <img src="s" alt="alt" ...>.
HtmlText(s) == [k |-> "text", alt |-> EmptyStr, s |-> s, sized |-> FALSE]
HtmlImg(alt, src, sized) == [k |-> "img", alt |-> alt, s |-> src, sized |-> sized]

Txt(s) == [k |-> "txt", alt |-> EmptyStr, s |-> s]
MdImg(alt, url) == [k |-> "md", alt |-> alt, s |-> url]
ImgTag(alt, src) == [k |-> "tag", alt |-> alt, s |-> src]

\* html2md::parse_html: an img element becomes the bracket form, except that
\* a sized one is kept as inline HTML; text is kept.
html_to_markdown(html) ==
    [n \in 1..Len(html) |->
        IF html[n].k = "img"
        THEN IF html[n].sized THEN ImgTag(html[n].alt, html[n].s)
                              ELSE MdImg(html[n].alt, html[n].s)
        ELSE Txt(html[n].s)]

\* (mutant) the description payload is preferred
extract_markdown_description_first(item) ==
    IF IsSome(item.description) THEN html_to_markdown(Unwrap(item.description))
    ELSE IF IsSome(item.content) THEN html_to_markdown(Unwrap(item.content))
    ELSE <<>>

extract_markdown(item) ==
    IF IsSome(item.content) THEN html_to_markdown(Unwrap(item.content))
    ELSE IF IsSome(item.description) THEN html_to_markdown(Unwrap(item.description))
    ELSE <<>>

\* a bracket-form image that carries a title: ![alt](s "title")
MdImgTitled(alt, url, title) == [k |-> "mdt", alt |-> alt, s |-> url, title |-> title]

\* what the group of md_re, ([^)]+), or of html_re, ([^"']+), holds for an
\* image: md_re takes all there is between the parentheses
captured(seg) ==
    IF seg.k = "mdt" THEN seg.s \o <<Chr(" \"")>> \o seg.title \o <<Chr("\"")>>
    ELSE seg.s

\* md_re and html_re both capture a non-empty source
extract_image_urls(markdown) ==
    {captured(markdown[n]) : n \in {m \in 1..Len(markdown) :
                                       /\ markdown[m].k \in {"md", "mdt", "tag"}
                                       /\ markdown[m].s # EmptyStr}}

\* replacements: a set of [url, local] entries, at most one per url
HasKey(replacements, url) == \E r \in replacements : r.url = url
Lookup(replacements, url) == (CHOOSE r \in replacements : r.url = url).local

replace_html_img_tags(markdown, replacements) ==
    [n \in 1..Len(markdown) |->
        IF markdown[n].k = "tag"
        THEN MdImg(markdown[n].alt,
                   IF HasKey(replacements, markdown[n].s)
                   THEN Lookup(replacements, markdown[n].s)
                   ELSE markdown[n].s)
        ELSE markdown[n]]

\* updated.replace(&url, &local) over the whole text
replace_in_text(text, url, local) ==
    [n \in 1..Len(text) |->
        [k |-> text[n].k,
         alt |-> StrReplace(text[n].alt, url, local),
         s |-> StrReplace(text[n].s, url, local)]]

\* the loop of localize_images over the map, visited in the order `order`
RECURSIVE replace_all(_, _)
replace_all(text, order) ==
    IF order = <<>> THEN text
    ELSE replace_all(replace_in_text(text, order[1].url, order[1].local), Tail(order))

\* (mutant) every element is visited twice
Orders_with_repeats(S) ==
    {o \o o : o \in {p \in [1..Cardinality(S) -> S] :
                        \A i, j \in 1..Cardinality(S) : i # j => p[i] # p[j]}}

\* every order in which a set can be iterated
Orders(S) ==
    {o \in [1..Cardinality(S) -> S] : \A i, j \in 1..Cardinality(S) : i # j => o[i] # o[j]}

\* the texts localize_images can return for the map it has built
rewritten(markdown, replacements) ==
    {replace_all(replace_html_img_tags(markdown, replacements), o) : o \in Orders(replacements)}

----------------------------------------------------------------------------
(* The inputs: image URLs, feeds, items, channels, responses *)

UrlPng == <<Chr("https://"), Chr("img.example/a"), Chr("."), Chr("png")>>
UrlBare == <<Chr("https://"), Chr("img.example/a")>>
UrlFtp == <<Chr("ftp://"), Chr("img.example/c"), Chr("."), Chr("png")>>
UrlRel == <<Chr("a"), Chr("."), Chr("png")>>

FeedEx == [name |-> Lit("Example"), url |-> Lit("https://feed.example/rss")]
FeedOther == [name |-> Lit("Other"), url |-> Lit("https://feed.example/rss")]
NoFeed == [name |-> EmptyStr, url |-> EmptyStr]

Item(title, link, pub_date, content, description) ==
    [title |-> title, link |-> link, pub_date |-> pub_date,
     content |-> content, description |-> description]

\* the item of the end-to-end scenario
ItemHello ==
    Item(Some(Lit("Hello")), Some(Lit("https://feed.example/1")), Some(Rfc2822(0, 0)),
         Some(<<HtmlText(Lit("Hi ")), HtmlImg(EmptyStr, UrlPng, FALSE)>>), None)
\* the same instant written in the other format with another offset
ItemHelloOffset == [ItemHello EXCEPT !.pub_date = Some(Rfc3339(1, 1))]
\* one hour later
ItemHelloLater == [ItemHello EXCEPT !.pub_date = Some(Rfc2822(1, 0))]
\* no title, no link, an unparseable date, a summary without images
ItemPlain ==
    Item(None, None, Some(BadDate(1)), None, Some(<<HtmlText(Lit("summary"))>>))
\* the same with the placeholder as its title and another unparseable date
ItemPlainTitled ==
    [ItemPlain EXCEPT !.title = Some(Lit("No Title")), !.pub_date = Some(BadDate(2))]
\* images that are never fetched: a scheme that is not http(s), a relative one
ItemFtp ==
    Item(Some(Lit("Ftp")), None, None,
         Some(<<HtmlImg(Lit("c"), UrlFtp, FALSE), HtmlImg(Lit("r"), UrlRel, TRUE)>>), None)
\* a sized image without an extension, whose URL is a prefix of UrlPng
ItemBare ==
    Item(Some(Lit("Bare")), None, Some(Rfc3339(0, 0)),
         Some(<<HtmlImg(Lit("b"), UrlBare, TRUE)>>), Some(<<HtmlText(Lit("unused"))>>))
\* another article that shows the same image as ItemBare
ItemBareAgain == [ItemBare EXCEPT !.title = Some(Lit("Bare again"))]
\* neither payload
ItemEmpty == Item(Some(Lit("Empty")), None, None, None, None)

\* the channels a sequential caller passes to store_channel
SeqChannels ==
    { <<ItemHello, ItemHello>>, <<ItemPlain>>, <<ItemFtp, ItemBare>>,
      <<ItemBare, ItemHello>>, <<ItemEmpty>>, <<ItemBareAgain>> }
\* the channels concurrent callers pass
ConcChannels == { <<ItemHello>>, <<ItemBare>>, <<ItemFtp>> }

\* what one image request can come to
NetErr == [k |-> "err", ct |-> None, bytes |-> "none"]
NetStatus404 == [k |-> "status", ct |-> None, bytes |-> "none"]
NetOk(ct, bytes) == [k |-> "ok", ct |-> ct, bytes |-> bytes]
NetOutcomes ==
    { NetErr, NetStatus404, NetOk(Some(Lit("image/png")), "PNG1"),
      NetOk(None, "RAW2") }

----------------------------------------------------------------------------
(* The store on disk *)

EmptyMap == [x \in {} |-> <<>>]
Put(m, key, v) == [x \in (DOMAIN m) \cup {key} |-> IF x = key THEN v ELSE m[x]]
Exists(m, key) == key \in DOMAIN m

\* store_dir.join(filename), as the text written to index.csv
path_string(filename) == Lit("data/articles/") \o filename

HeaderRow ==
    [time |-> Lit("time"), article_name |-> Lit("article_name"),
     rss_subscription_name |-> Lit("rss_subscription_name"), path |-> Lit("path")]

NowStr == <<[now |-> TRUE]>>

\* store_item, lines 87-93
store_title(item) == UnwrapOr(item.title, Lit("No Title"))
store_link(item) == UnwrapOr(item.link, EmptyStr)
time_for_hash(item) == UnwrapOr(parse_pub_date(item.pub_date), EmptyStr)
time_for_csv(item) == UnwrapOr(parse_pub_date(item.pub_date), NowStr)
store_filename(feed, item) ==
    item_filename(feed.name, feed.url, store_title(item), store_link(item),
                  time_for_hash(item))

\* read_item_markdown, lines 133-137
read_filename(feed, item) ==
    item_filename(feed.name, feed.url, UnwrapOr(item.title, Lit("No Title")),
                  UnwrapOr(item.link, EmptyStr),
                  UnwrapOr(parse_pub_date(item.pub_date), EmptyStr))

\* fs::read_to_string(&file_path).ok()
read_item_markdown(feed, item) ==
    IF Exists(files, read_filename(feed, item))
    THEN Some(files[read_filename(feed, item)])
    ELSE None

\* (mutant) the row carries the time the digest is taken over
index_row_time_for_hash(feed, item) ==
    [time |-> time_for_hash(item), article_name |-> store_title(item),
     rss_subscription_name |-> feed.name,
     path |-> path_string(store_filename(feed, item))]

index_row(feed, item) ==
    [time |-> time_for_csv(item), article_name |-> store_title(item),
     rss_subscription_name |-> feed.name,
     path |-> path_string(store_filename(feed, item))]

----------------------------------------------------------------------------
(* store_channel and store_item as tasks: db.rs 68-125, 177-234 *)

Tasks == 1..MaxTasks

\* what one store_item call has done so far
\* (net: requests sent, img: image files written, art: writes to the artifact,
\* idx: rows appended, absent: download_image calls that returned Ok(None),
\* why: the operation whose error the call returned)
NoEffect == [net |-> 0, img |-> 0, art |-> 0, idx |-> 0, absent |-> 0, why |-> "none"]

IdleTask ==
    [pc |-> "idle", feed |-> NoFeed, chan |-> <<>>, i |-> 0,
     hit |-> FALSE,     \* file_path.exists() answered true
     urls |-> <<>>,     \* the URLs the loop of localize_images has yet to visit
     repl |-> {},       \* replacements
     resp |-> None,     \* the response download_image holds
     out |-> <<>>,      \* content_markdown after localize_images
     eff |-> NoEffect,
     rets |-> <<>>,     \* what the store_item calls of this task returned
     res |-> "none"]    \* what store_channel returned

CurItem(tk) == tk.chan[tk.i]
CurFile(tk) == store_filename(tk.feed, CurItem(tk))
CurUrl(tk) == Head(tk.urls)

\* the locals of a store_item call as it is entered
Fresh(tk) ==
    [tk EXCEPT !.hit = FALSE, !.urls = <<>>, !.repl = {}, !.resp = None,
               !.out = <<>>, !.eff = NoEffect]

\* store_item returns Ok(text) and store_channel goes on with the next item
ItemOk(tk, text) ==
    LET done == [Fresh(tk) EXCEPT
                   !.rets = Append(tk.rets, [hit |-> tk.hit, res |-> Some(text), eff |-> tk.eff])]
    IN  IF tk.i < Len(tk.chan)
        THEN [done EXCEPT !.i = tk.i + 1, !.pc = "exists"]
        ELSE [done EXCEPT !.pc = "done", !.res = "ok"]

\* store_item returns Err and `?` makes store_channel return it
ItemErr(tk, why) ==
    [Fresh(tk) EXCEPT
       !.rets = Append(tk.rets, [hit |-> tk.hit, res |-> None,
                                 eff |-> [tk.eff EXCEPT !.why = why]]),
       !.pc = "done", !.res = "err"]

Bump(eff, what) == [eff EXCEPT ![what] = eff[what] + 1]

\* localize_images after the loop: the rewritten texts it can return
LocalizeReturn(tk, repl) ==
    {[tk EXCEPT !.urls = <<>>, !.repl = {}, !.resp = None, !.out = text, !.pc = "create"] :
        text \in rewritten(extract_markdown(CurItem(tk)), repl)}

\* download_image has returned for the URL at the head of the loop
UrlDone(tk, repl) ==
    IF Len(tk.urls) > 1
    THEN {[tk EXCEPT !.urls = Tail(tk.urls), !.repl = repl, !.resp = None, !.pc = "dl"]}
    ELSE LocalizeReturn(tk, repl)

Inserted(tk, filename) ==
    tk.repl \cup {[url |-> CurUrl(tk), local |-> local_reference(filename)]}

\* store_item 95: file_path.exists()
artifact_exists(tk) == Exists(files, CurFile(tk))

\* (mutant) the item is converted again instead of the file being read
existing_contents_reconverted(tk) == extract_markdown(CurItem(tk))

\* store_item 96: fs::read_to_string(&file_path).unwrap_or_default()
existing_contents(tk) ==
    IF Exists(files, CurFile(tk)) THEN files[CurFile(tk)] ELSE <<>>

\* (mutant) the provisional file is never found
provisional_exists_never(url) == FALSE

\* download_image 209-211: a file with the provisional filename exists
provisional_exists(url) == Exists(images, image_filename(url, None))

\* (mutant) every URL that parses is requested
fetchable_any_scheme(url) == IsSome(url_scheme(url))

\* download_image 201-207: the URL parses and its scheme is http or https
fetchable(url) ==
    IsSome(url_scheme(url)) /\ Unwrap(url_scheme(url)) \in {"http", "https"}

\* store_channel as it is entered: an empty channel returns Ok at once
Entered(feed, chan) ==
    IF chan = <<>>
    THEN [IdleTask EXCEPT !.pc = "done", !.res = "ok", !.feed = feed]
    ELSE [IdleTask EXCEPT !.pc = "exists", !.feed = feed, !.chan = chan, !.i = 1]

\* the task slot the next store_channel call takes
CanSpawn(t) ==
    /\ tasks[t].pc = "idle"
    /\ \A u \in Tasks : u < t => tasks[u].pc # "idle"

\* a direct call of store_channel(feed, channel)
StoreChannel(t, feed, chan) ==
    /\ CanSpawn(t)
    /\ tasks' = [tasks EXCEPT ![t] = Entered(feed, chan)]
    /\ UNCHANGED <<files, images, index, faults, net, clientVars>>

\* store_item 87-101: file_path.exists(), then the conversion
ExistsCheck(t) ==
    LET tk == tasks[t] IN
    /\ tk.pc = "exists"
    /\ IF artifact_exists(tk)
       THEN tasks' = [tasks EXCEPT ![t] = [tk EXCEPT !.hit = TRUE, !.pc = "read"]]
       ELSE LET urls == extract_image_urls(extract_markdown(CurItem(tk)))
            IN  IF urls = {}
                THEN \E nxt \in LocalizeReturn(tk, {}) : tasks' = [tasks EXCEPT ![t] = nxt]
                ELSE \E order \in Orders(urls) :
                        tasks' = [tasks EXCEPT ![t] = [tk EXCEPT !.urls = order, !.pc = "dl"]]
    /\ UNCHANGED <<files, images, index, faults, net, clientVars>>

\* store_item 96-97: fs::read_to_string(&file_path).unwrap_or_default()
ReadExisting(t) ==
    LET tk == tasks[t] IN
    /\ tk.pc = "read"
    /\ tasks' = [tasks EXCEPT ![t] = ItemOk(tk, existing_contents(tk))]
    /\ UNCHANGED <<files, images, index, faults, net, clientVars>>

\* localize_images 184-187 and download_image 201-213
DownloadBegin(t) ==
    LET tk == tasks[t]
        url == CurUrl(tk)
        filename == image_filename(url, None)
        absent == [tk EXCEPT !.eff = Bump(tk.eff, "absent")]
    IN
    /\ tk.pc = "dl"
    /\ IF HasKey(tk.repl, url)
       THEN \E nxt \in UrlDone(tk, tk.repl) : tasks' = [tasks EXCEPT ![t] = nxt]
       ELSE IF ~fetchable(url)
       THEN \E nxt \in UrlDone(absent, tk.repl) : tasks' = [tasks EXCEPT ![t] = nxt]
       ELSE IF provisional_exists(url)
       THEN \E nxt \in UrlDone(tk, Inserted(tk, filename)) :
                tasks' = [tasks EXCEPT ![t] = nxt]
       ELSE tasks' = [tasks EXCEPT ![t] = [tk EXCEPT !.pc = "send"]]
    /\ UNCHANGED <<files, images, index, faults, net, clientVars>>

\* download_image 215-225: the request and its response
DownloadSend(t) ==
    LET tk == tasks[t]
        sent == [tk EXCEPT !.eff = Bump(tk.eff, "net")]
    IN
    /\ tk.pc = "send"
    /\ net' = net + 1
    /\ \E r \in NetOutcomes :
          CASE r.k = "err" ->
                 tasks' = [tasks EXCEPT ![t] = ItemErr(sent, "image request")]
            [] r.k = "status" ->
                 \E nxt \in UrlDone([sent EXCEPT !.eff = Bump(sent.eff, "absent")], sent.repl) :
                    tasks' = [tasks EXCEPT ![t] = nxt]
            [] r.k = "ok" ->
                 tasks' = [tasks EXCEPT ![t] = [sent EXCEPT !.resp = Some(r), !.pc = "dl_exists"]]
    /\ UNCHANGED <<files, images, index, faults, clientVars>>

\* download_image 227-229: the second existence check
DownloadExists(t) ==
    LET tk == tasks[t]
        filename == image_filename(CurUrl(tk), Unwrap(tk.resp).ct)
    IN
    /\ tk.pc = "dl_exists"
    /\ IF Exists(images, filename)
       THEN \E nxt \in UrlDone(tk, Inserted(tk, filename)) :
                tasks' = [tasks EXCEPT ![t] = nxt]
       ELSE tasks' = [tasks EXCEPT ![t] = [tk EXCEPT !.pc = "dl_write"]]
    /\ UNCHANGED <<files, images, index, faults, net, clientVars>>

\* download_image 230-233: fs::write(&target_path, &bytes)
DownloadWrite(t) ==
    LET tk == tasks[t]
        filename == image_filename(CurUrl(tk), Unwrap(tk.resp).ct)
        wrote == [tk EXCEPT !.eff = Bump(tk.eff, "img")]
    IN
    /\ tk.pc = "dl_write"
    /\ \/ /\ images' = Put(images, filename, Unwrap(tk.resp).bytes)
          /\ \E nxt \in UrlDone(wrote, Inserted(wrote, filename)) :
                tasks' = [tasks EXCEPT ![t] = nxt]
          /\ UNCHANGED faults
       \/ /\ faults < MaxFaults
          /\ faults' = faults + 1
          /\ tasks' = [tasks EXCEPT ![t] = ItemErr(tk, "image write")]
          /\ UNCHANGED images
    /\ UNCHANGED <<files, index, net, clientVars>>

\* store_item 103, first half: fs::write opens the file, truncating it
ArtifactCreate(t) ==
    LET tk == tasks[t] IN
    /\ tk.pc = "create"
    /\ \/ /\ files' = Put(files, CurFile(tk), <<>>)
          /\ tasks' = [tasks EXCEPT ![t] = [tk EXCEPT !.eff = Bump(tk.eff, "art"), !.pc = "write"]]
          /\ UNCHANGED faults
       \/ /\ faults < MaxFaults
          /\ faults' = faults + 1
          /\ tasks' = [tasks EXCEPT ![t] = ItemErr(tk, "artifact")]
          /\ UNCHANGED files
    /\ UNCHANGED <<images, index, net, clientVars>>

\* store_item 103, second half: fs::write writes the whole buffer
ArtifactWrite(t) ==
    LET tk == tasks[t] IN
    /\ tk.pc = "write"
    /\ \/ /\ files' = Put(files, CurFile(tk), tk.out)
          /\ tasks' = [tasks EXCEPT ![t] = [tk EXCEPT !.pc = "append"]]
          /\ UNCHANGED faults
       \/ /\ faults < MaxFaults
          /\ faults' = faults + 1
          /\ tasks' = [tasks EXCEPT ![t] = ItemErr(tk, "artifact")]
          /\ UNCHANGED files
    /\ UNCHANGED <<images, index, net, clientVars>>

\* (mutant) the row is appended before the artifact is written
AppendIndex_first(t) ==
    LET tk == tasks[t] IN
    /\ \/ /\ tk.pc = "create"
          /\ tk.eff.idx = 0
          /\ index' = Append(index, index_row(tk.feed, CurItem(tk)))
          /\ tasks' = [tasks EXCEPT ![t] = [tk EXCEPT !.eff = Bump(tk.eff, "idx")]]
          /\ UNCHANGED faults
       \/ /\ tk.pc = "append"
          /\ tasks' = [tasks EXCEPT ![t] = ItemOk(tk, tk.out)]
          /\ UNCHANGED <<index, faults>>
    /\ UNCHANGED <<files, images, net, clientVars>>

\* store_item 106-124: the row is appended and flushed, and Ok is returned
AppendIndex(t) ==
    LET tk == tasks[t] IN
    /\ tk.pc = "append"
    /\ \/ /\ index' = Append(index, index_row(tk.feed, CurItem(tk)))
          /\ tasks' = [tasks EXCEPT ![t] = ItemOk([tk EXCEPT !.eff = Bump(tk.eff, "idx")], tk.out)]
          /\ UNCHANGED faults
       \/ /\ faults < MaxFaults
          /\ faults' = faults + 1
          /\ tasks' = [tasks EXCEPT ![t] = ItemErr(tk, "index")]
          /\ UNCHANGED index
    /\ UNCHANGED <<files, images, net, clientVars>>

Step(t) ==
    \/ ExistsCheck(t)
    \/ ReadExisting(t)
    \/ DownloadBegin(t)
    \/ DownloadSend(t)
    \/ DownloadExists(t)
    \/ DownloadWrite(t)
    \/ ArtifactCreate(t)
    \/ ArtifactWrite(t)
    \/ AppendIndex(t)

----------------------------------------------------------------------------
(* The web server: server.rs 60-228 *)

\* Vec::get with the 0-based index of the code
VecGet(v, i) == IF i >= 0 /\ i < Len(v) THEN Some(v[i + 1]) ELSE None

\* config.get_all_feeds()
ConfigFeeds == <<FeedEx>>

\* the channels the feed serves over time, and what fetching it can come to
FeedChannels == {<<ItemHello>>, <<ItemPlain, ItemEmpty>>, <<>>}
\* the item indexes a client asks for: those of a channel and one past its end
ItemIndexes == UNION {0..Len(chan) : chan \in FeedChannels}
\* (early: the URL could not be built, so that no request was made)
FetchOutcomes ==
    {[ok |-> TRUE, chan |-> chan, early |-> FALSE] : chan \in FeedChannels}
    \cup {[ok |-> FALSE, chan |-> <<>>, early |-> early] : early \in BOOLEAN}

Reqs == 1..MaxReqs

NoResponse == [status |-> 0, text |-> EmptyStr, json |-> None]
NotFound(msg) == [status |-> 404, text |-> Lit(msg), json |-> None]
BadGateway == [status |-> 502, text |-> Lit("fetch failed"), json |-> None]
JsonOk(v) == [status |-> 200, text |-> EmptyStr, json |-> Some(v)]

IdleReq ==
    [pc |-> "idle", kind |-> "none", index |-> 0, item_index |-> 0,
     chan |-> <<>>, resp |-> NoResponse]

\* markdown.trim().is_empty()
trim_is_empty(markdown) ==
    \A n \in 1..Len(markdown) :
        markdown[n].k = "txt" /\ markdown[n].s \in {EmptyStr, Lit(" ")}

render_markdown_html(markdown) == <<[html |-> markdown]>>

StillProcessingHtml == Lit("<em>Content is still processing.</em>")
NoContentHtml == Lit("<em>No content.</em>")

ItemContent(item, content_html) ==
    [title |-> UnwrapOr(item.title, Lit("No Title")), link |-> item.link,
     pub_date |-> item.pub_date, content_html |-> content_html]

channel_to_response(chan) ==
    [items |-> [n \in 1..Len(chan) |->
                   [id |-> n - 1, title |-> UnwrapOr(chan[n].title, Lit("No Title")),
                    link |-> chan[n].link, pub_date |-> chan[n].pub_date]]]

\* (mutant) an item that is not stored yet is answered as not found
item_response_absent_404(feed, chan, item_index) ==
    LET item == VecGet(chan, item_index) IN
    IF ~IsSome(item) THEN NotFound("Item not found")
    ELSE LET markdown == read_item_markdown(feed, Unwrap(item)) IN
         IF ~IsSome(markdown) THEN NotFound("Item not found")
         ELSE JsonOk(ItemContent(Unwrap(item),
                        IF trim_is_empty(Unwrap(markdown)) THEN NoContentHtml
                        ELSE render_markdown_html(Unwrap(markdown))))

\* get_item 152-182: the item, its stored text, the response
item_response(feed, chan, item_index) ==
    LET item == VecGet(chan, item_index) IN
    IF ~IsSome(item) THEN NotFound("Item not found")
    ELSE LET markdown == read_item_markdown(feed, Unwrap(item)) IN
         IF ~IsSome(markdown)
         THEN JsonOk(ItemContent(Unwrap(item), StillProcessingHtml))
         ELSE JsonOk(ItemContent(Unwrap(item),
                        IF trim_is_empty(Unwrap(markdown)) THEN NoContentHtml
                        ELSE render_markdown_html(Unwrap(markdown))))

\* run_server has built the AppState
Serving == Len(cache) = Len(ConfigFeeds)

\* the handler from the point where it holds the channel: get_item 152-182,
\* get_feed 125-135
Finish(r, rq, chan) ==
    LET feed == ConfigFeeds[rq.index + 1] IN
    IF rq.kind = "item"
    THEN /\ reqs' = [reqs EXCEPT ![r] =
                        [rq EXCEPT !.pc = "done", !.chan = <<>>,
                                   !.resp = item_response(feed, chan, rq.item_index)]]
         /\ UNCHANGED tasks
    ELSE /\ \E t \in Tasks : CanSpawn(t) /\ tasks' = [tasks EXCEPT ![t] = Entered(feed, chan)]
         /\ reqs' = [reqs EXCEPT ![r] =
                        [rq EXCEPT !.pc = "done", !.chan = <<>>,
                                   !.resp = JsonOk(channel_to_response(chan))]]

\* the handler up to its first await: get_feed 114-118, get_item 142-146
HandlerBegin(r, kind, idx, item_index) ==
    LET rq == [IdleReq EXCEPT !.kind = kind, !.index = idx, !.item_index = item_index]
    IN
    /\ Serving
    /\ reqs[r].pc \in {"idle", "done"}
    /\ reqs' = [reqs EXCEPT ![r] =
                   IF ~IsSome(VecGet(ConfigFeeds, idx))
                   THEN [rq EXCEPT !.pc = "done", !.resp = NotFound("Feed not found")]
                   ELSE [rq EXCEPT !.pc = "lock"]]
    /\ UNCHANGED <<files, images, index, tasks, faults, net, cache, app, probe>>

\* (mutant) the slot is never consulted
CacheLook_always_fetching(r) ==
    /\ reqs[r].pc = "lock"
    /\ reqs' = [reqs EXCEPT ![r] = [reqs[r] EXCEPT !.pc = "fetch"]]
    /\ UNCHANGED <<files, images, index, tasks, faults, net, cache, app, probe>>

\* get_or_fetch_channel 190-192: the cached channel, and the rest of the handler
CacheLook(r) ==
    LET cached == VecGet(cache, reqs[r].index) IN
    /\ reqs[r].pc = "lock"
    /\ IF IsSome(cached) /\ IsSome(Unwrap(cached))
       THEN Finish(r, reqs[r], Unwrap(Unwrap(cached)))
       ELSE /\ reqs' = [reqs EXCEPT ![r] = [reqs[r] EXCEPT !.pc = "fetch"]]
            /\ UNCHANGED tasks
    /\ UNCHANGED <<files, images, index, faults, net, cache, app, probe>>

\* GET /api/feeds/:index
GetFeed(r, idx) == HandlerBegin(r, "feed", idx, 0)

\* GET /api/feeds/:index/items/:item_index
GetItem(r, idx, item_index) == HandlerBegin(r, "item", idx, item_index)

\* get_or_fetch_channel 194-197: feed::fetch_configured_feed(feed).await
FetchFeed(r) ==
    /\ reqs[r].pc = "fetch"
    /\ \E o \in FetchOutcomes :
          reqs' = [reqs EXCEPT ![r] =
                     IF o.ok THEN [reqs[r] EXCEPT !.pc = "set", !.chan = o.chan]
                     ELSE [reqs[r] EXCEPT !.pc = "done", !.resp = BadGateway]]
    /\ UNCHANGED <<files, images, index, tasks, faults, net, cache, app, probe>>

\* get_or_fetch_channel 199-203, and the rest of the handler
CacheSet(r) ==
    /\ reqs[r].pc = "set"
    /\ cache' = [cache EXCEPT ![reqs[r].index + 1] = Some(reqs[r].chan)]
    /\ Finish(r, reqs[r], reqs[r].chan)
    /\ UNCHANGED <<files, images, index, faults, net, app, probe>>

----------------------------------------------------------------------------
(* The terminal interface: tui/mod.rs 30-348, 400-447, 516-561 *)

\* no App has been built (the program serves, or the store is called directly)
\* (config: config.is_some(); feeds is then ConfigFeeds, and empty otherwise)
NoApp ==
    [config |-> FALSE,
     current_screen |-> "Off", current_feed |-> None, current_feed_name |-> None,
     current_feed_url |-> None, item_markdown |-> <<>>, current_items |-> <<>>,
     feed_state |-> None, item_state |-> None, should_quit |-> FALSE,
     status_message |-> EmptyStr, scroll_offset |-> 0, is_loading |-> FALSE]

\* App::with_config_and_db(config, Some(db)) with the feeds of ConfigFeeds
with_config_and_db ==
    [NoApp EXCEPT !.config = TRUE,
                  !.current_screen = "Feeds",
                  !.feed_state = IF ConfigFeeds # <<>> THEN Some(0) ELSE None,
                  !.status_message = Lit("Press 'q' to quit")]

\* App::with_channel_and_db(channel, Some(db), feed_name, feed_url), 80-99
with_channel_and_db(channel, feed_name, feed_url) ==
    [NoApp EXCEPT !.current_feed = Some(channel),
                  !.current_items = channel,
                  !.item_markdown = [n \in 1..Len(channel) |-> None],
                  !.current_feed_name = feed_name,
                  !.current_feed_url = feed_url,
                  !.current_screen = "Items",
                  !.item_state = IF channel # <<>> THEN Some(0) ELSE None,
                  !.status_message = Lit("Press 'q' to quit")]

\* self.feeds
Feeds(a) == IF a.config THEN ConfigFeeds ELSE <<>>

\* String::starts_with
StartsWith(s, prefix) ==
    Len(s) >= Len(prefix) /\ SubSeq(s, 1, Len(prefix)) = prefix

FetchingStatus(url) == <<Chr("Fetching"), Chr(" ")>> \o url \o <<Chr("...")>>
ErrorStatus(e) == <<Chr("Error:"), Chr(" "), Chr(e)>>

TuiRunning == app.current_screen # "Off" /\ ~app.should_quit

\* fetch_feed 101-157 with the channel result `o`: the App as the call
\* returns; it returns Err exactly if ~o.ok
fetch_feed(a, feed, o) ==
    LET loading == [a EXCEPT !.is_loading = TRUE,
                             !.status_message = FetchingStatus(feed.url)]
    IN  IF o.early THEN loading
        ELSE IF o.ok
        THEN [loading EXCEPT
                   !.current_items = o.chan, !.current_feed = Some(o.chan),
                   !.current_feed_name = Some(feed.name),
                   !.current_feed_url = Some(feed.url),
                   !.item_markdown = [n \in 1..Len(o.chan) |-> None],
                   !.is_loading = FALSE, !.status_message = Lit("Loaded feed"),
                   !.current_screen = "Items", !.item_state = Some(0)]
        ELSE [loading EXCEPT !.is_loading = FALSE,
                             !.status_message = ErrorStatus("fetch failed")]

\* (mutant) select leaves the App as fetch_feed returned it
select_feed_unhandled(a, feed, o) == fetch_feed(a, feed, o)

\* select 244-257: fetch_feed and the handling of its error
select_feed(a, feed, o) ==
    LET b == fetch_feed(a, feed, o) IN
    IF o.ok THEN b
    ELSE [b EXCEPT !.status_message =
                       IF StartsWith(b.status_message, <<Chr("Fetching")>>)
                       THEN ErrorStatus(IF o.early THEN "RSSHub host missing for feed"
                                        ELSE "fetch failed")
                       ELSE b.status_message,
                   !.is_loading = FALSE]

\* (mutant) the slot is read from the store on every Enter
load_markdown_for_selected_always(a) ==
    LET idx == Unwrap(a.item_state)
        slot == VecGet(a.item_markdown, idx)
        item == VecGet(a.current_items, idx)
        feed == [name |-> UnwrapOr(a.current_feed_name, Lit("Unknown Feed")),
                 url |-> UnwrapOr(a.current_feed_url, Lit("unknown"))]
    IN  IF ~IsSome(a.item_state) THEN a
        ELSE IF ~IsSome(item) THEN a
        ELSE IF IsSome(slot)
             THEN [a EXCEPT !.item_markdown[idx + 1] =
                                read_item_markdown(feed, Unwrap(item))]
             ELSE a

\* load_markdown_for_selected 317-348
load_markdown_for_selected(a) ==
    LET idx == Unwrap(a.item_state)
        slot == VecGet(a.item_markdown, idx)
        item == VecGet(a.current_items, idx)
        feed == [name |-> UnwrapOr(a.current_feed_name, Lit("Unknown Feed")),
                 url |-> UnwrapOr(a.current_feed_url, Lit("unknown"))]
    IN  IF ~IsSome(a.item_state) THEN a
        ELSE IF IsSome(slot) /\ IsSome(Unwrap(slot)) THEN a
        ELSE IF ~IsSome(item) THEN a
        ELSE IF IsSome(slot)
             THEN [a EXCEPT !.item_markdown[idx + 1] =
                                read_item_markdown(feed, Unwrap(item))]
             ELSE a

\* (mutant) opening an article creates its file when there is none
TuiSelect_creating ==
    /\ TuiRunning
    /\ CASE app.current_screen = "Feeds" ->
              LET feed == IF IsSome(app.feed_state)
                          THEN VecGet(Feeds(app), Unwrap(app.feed_state)) ELSE None
              IN  IF ~IsSome(feed) THEN UNCHANGED <<app, tasks>>
                  ELSE \E o \in FetchOutcomes :
                          /\ app' = select_feed(app, Unwrap(feed), o)
                          /\ IF o.ok
                             THEN \E t \in Tasks :
                                     /\ CanSpawn(t)
                                     /\ tasks' = [tasks EXCEPT ![t] = Entered(Unwrap(feed), o.chan)]
                             ELSE UNCHANGED tasks
         [] app.current_screen = "Items" ->
              /\ IF IsSome(app.item_state)
                 THEN app' = [load_markdown_for_selected(app) EXCEPT
                                !.current_screen = "Article", !.scroll_offset = 0,
                                !.status_message = Lit("Reading article")]
                 ELSE UNCHANGED app
              /\ UNCHANGED tasks
         [] OTHER -> UNCHANGED <<app, tasks>>
    /\ files' = IF app.current_screen = "Items" /\ IsSome(app.item_state)
                   /\ IsSome(VecGet(app.current_items, Unwrap(app.item_state)))
                THEN LET file == read_filename(
                                    [name |-> Unwrap(app.current_feed_name),
                                     url |-> Unwrap(app.current_feed_url)],
                                    Unwrap(VecGet(app.current_items, Unwrap(app.item_state))))
                     IN  IF Exists(files, file) THEN files ELSE Put(files, file, <<>>)
                ELSE files
    /\ UNCHANGED <<images, index, faults, net, cache, reqs, probe>>

\* Enter: select 239-276
TuiSelect ==
    /\ TuiRunning
    /\ CASE app.current_screen = "Feeds" ->
              LET feed == IF IsSome(app.feed_state)
                          THEN VecGet(Feeds(app), Unwrap(app.feed_state)) ELSE None
              IN  IF ~IsSome(feed) THEN UNCHANGED <<app, tasks>>
                  ELSE \E o \in FetchOutcomes :
                          /\ app' = select_feed(app, Unwrap(feed), o)
                          /\ IF o.ok
                             THEN \E t \in Tasks :
                                     /\ CanSpawn(t)
                                     /\ tasks' = [tasks EXCEPT ![t] = Entered(Unwrap(feed), o.chan)]
                             ELSE UNCHANGED tasks
         [] app.current_screen = "Items" ->
              /\ IF IsSome(app.item_state)
                 THEN app' = [load_markdown_for_selected(app) EXCEPT
                                !.current_screen = "Article", !.scroll_offset = 0,
                                !.status_message = Lit("Reading article")]
                 ELSE UNCHANGED app
              /\ UNCHANGED tasks
         [] OTHER -> UNCHANGED <<app, tasks>>
    /\ UNCHANGED <<files, images, index, faults, net, cache, reqs, probe>>

\* (mutant) Esc on the Items screen quits when there is no config
back_quitting_direct(a) ==
    CASE a.current_screen = "Article" ->
            [a EXCEPT !.current_screen = "Items", !.status_message = Lit("Feed items")]
      [] a.current_screen = "Items" ->
            IF a.config
            THEN [a EXCEPT !.current_screen = "Feeds", !.current_feed = None,
                           !.current_feed_name = None, !.current_feed_url = None,
                           !.current_items = <<>>, !.item_markdown = <<>>,
                           !.status_message = Lit("Select a feed")]
            ELSE [a EXCEPT !.should_quit = TRUE]
      [] OTHER -> [a EXCEPT !.should_quit = TRUE]

\* Esc: back 278-307
back(a) ==
    CASE a.current_screen = "Article" ->
            [a EXCEPT !.current_screen = "Items", !.status_message = Lit("Feed items")]
      [] a.current_screen = "Items" ->
            IF a.config
            THEN [a EXCEPT !.current_screen = "Feeds", !.current_feed = None,
                           !.current_feed_name = None, !.current_feed_url = None,
                           !.current_items = <<>>, !.item_markdown = <<>>,
                           !.status_message = Lit("Select a feed")]
            ELSE a
      [] OTHER -> [a EXCEPT !.should_quit = TRUE]

TuiBack ==
    /\ TuiRunning
    /\ app' = back(app)
    /\ UNCHANGED <<files, images, index, tasks, faults, net, cache, reqs, probe>>

\* 'q': run_app 411-417
TuiQuit ==
    /\ TuiRunning
    /\ app' = IF app.current_screen = "Article" THEN back(app)
              ELSE [app EXCEPT !.should_quit = TRUE]
    /\ UNCHANGED <<files, images, index, tasks, faults, net, cache, reqs, probe>>

\* scroll_down 309-311, scroll_up 313-315
scroll_down(a) == [a EXCEPT !.scroll_offset = a.scroll_offset + 1]
scroll_up(a) ==
    [a EXCEPT !.scroll_offset = IF a.scroll_offset > 0 THEN a.scroll_offset - 1 ELSE 0]

\* the next index of a list of length len, wrapping
next_index(state, len) ==
    IF ~IsSome(state) THEN 0
    ELSE IF Unwrap(state) >= len - 1 THEN 0 ELSE Unwrap(state) + 1

previous_index(state, len) ==
    IF ~IsSome(state) THEN 0
    ELSE IF Unwrap(state) = 0 THEN len - 1 ELSE Unwrap(state) - 1

\* 'j' / Down: next 159-197
TuiNext ==
    /\ TuiRunning
    /\ app.current_screen = "Article" => app.scroll_offset < MaxScroll
    /\ app' = CASE app.current_screen = "Feeds" ->
                      IF Feeds(app) = <<>> THEN app
                      ELSE [app EXCEPT !.feed_state =
                                Some(next_index(app.feed_state, Len(Feeds(app))))]
                [] app.current_screen = "Items" ->
                      IF app.current_items = <<>> THEN app
                      ELSE [app EXCEPT !.item_state =
                                Some(next_index(app.item_state, Len(app.current_items)))]
                [] OTHER -> scroll_down(app)
    /\ UNCHANGED <<files, images, index, tasks, faults, net, cache, reqs, probe>>

\* 'k' / Up: previous 199-237
TuiPrevious ==
    /\ TuiRunning
    /\ app' = CASE app.current_screen = "Feeds" ->
                      IF Feeds(app) = <<>> THEN app
                      ELSE [app EXCEPT !.feed_state =
                                Some(previous_index(app.feed_state, Len(Feeds(app))))]
                [] app.current_screen = "Items" ->
                      IF app.current_items = <<>> THEN app
                      ELSE [app EXCEPT !.item_state =
                                Some(previous_index(app.item_state, Len(app.current_items)))]
                [] OTHER -> scroll_up(app)
    /\ UNCHANGED <<files, images, index, tasks, faults, net, cache, reqs, probe>>

\* 'd' / PageDown and 'u' / PageUp: run_app 431-436
TuiScrollDown ==
    /\ TuiRunning
    /\ app.scroll_offset < MaxScroll
    /\ app' = scroll_down(app)
    /\ UNCHANGED <<files, images, index, tasks, faults, net, cache, reqs, probe>>

TuiScrollUp ==
    /\ TuiRunning
    /\ app' = scroll_up(app)
    /\ UNCHANGED <<files, images, index, tasks, faults, net, cache, reqs, probe>>

StillProcessingLine == Lit("Content is still processing...")
NoContentLine == Lit("No content.")
markdown_to_lines(markdown) == <<[lines |-> markdown]>>

\* ui 516-565: the body of the article view
article_body(a) ==
    LET selected_item == IF IsSome(a.item_state)
                         THEN VecGet(a.current_items, Unwrap(a.item_state)) ELSE None
        slot == VecGet(a.item_markdown, UnwrapOr(a.item_state, 0))
    IN  IF ~IsSome(selected_item) THEN Lit("No item selected")
        ELSE IF IsSome(slot) /\ IsSome(Unwrap(slot))
             THEN IF ~trim_is_empty(Unwrap(Unwrap(slot)))
                  THEN markdown_to_lines(Unwrap(Unwrap(slot)))
                  ELSE NoContentLine
             ELSE StillProcessingLine

\* Database::initialize on an empty directory
Init ==
    /\ files = EmptyMap
    /\ images = EmptyMap
    /\ index = <<HeaderRow>>
    /\ tasks = [t \in Tasks |-> IdleTask]
    /\ faults = 0
    /\ net = 0
    /\ cache = <<>>
    /\ reqs = [r \in Reqs |-> IdleReq]
    /\ app = NoApp
    /\ probe = None

\* concurrent callers
Next ==
    \/ \E t \in Tasks, chan \in ConcChannels : StoreChannel(t, FeedEx, chan)
    \/ \E t \in Tasks : Step(t)

Spec == Init /\ [][Next]_vars

\* one caller at a time
Quiet(t) == \A u \in Tasks \ {t} : tasks[u].pc \in {"idle", "done"}

NextSeq ==
    \/ \E t \in Tasks, chan \in SeqChannels : Quiet(t) /\ StoreChannel(t, FeedEx, chan)
    \/ \E t \in Tasks : Quiet(t) /\ Step(t)

SpecSeq == Init /\ [][NextSeq]_vars

\* the program run as the server (run_server) or as the terminal interface
\* (run_tui), on an empty store
InitApp ==
    /\ files = EmptyMap
    /\ images = EmptyMap
    /\ index = <<HeaderRow>>
    /\ tasks = [t \in Tasks |-> IdleTask]
    /\ faults = 0
    /\ net = 0
    /\ reqs = [r \in Reqs |-> IdleReq]
    /\ probe = None
    /\ \/ cache = [n \in 1..Len(ConfigFeeds) |-> None] /\ app = NoApp
       \/ cache = <<>> /\ app = with_config_and_db

NextApp ==
    \/ \E r \in Reqs, idx \in 0..Len(ConfigFeeds) : GetFeed(r, idx)
    \/ \E r \in Reqs, idx \in 0..Len(ConfigFeeds), item_index \in ItemIndexes :
          GetItem(r, idx, item_index)
    \/ \E r \in Reqs : CacheLook(r)
    \/ \E r \in Reqs : FetchFeed(r)
    \/ \E r \in Reqs : CacheSet(r)
    \/ TuiSelect
    \/ TuiBack
    \/ TuiQuit
    \/ TuiNext
    \/ TuiPrevious
    \/ TuiScrollDown
    \/ TuiScrollUp
    \/ \E t \in Tasks : Step(t)

SpecApp == InitApp /\ [][NextApp]_vars

----------------------------------------------------------------------------
(* The naming specification: pairs of store_item inputs that differ in one
   of the five raw inputs; the first of the pair is ingested *)

\* the strings of at most n characters over 'a' and the separator
RECURSIVE StrsUpTo(_)
StrsUpTo(n) ==
    IF n = 0 THEN {<<>>}
    ELSE StrsUpTo(n - 1) \cup
         {Append(s, ch) : s \in {x \in StrsUpTo(n - 1) : Len(x) = n - 1},
                          ch \in {Chr("a"), Chr("|")}}

Strs == StrsUpTo(MaxStrLen)

NameDomain == Strs
UrlDomain == Strs
TitleDomain == {None, Some(Lit("No Title"))} \cup {Some(s) : s \in Strs}
LinkDomain == {None} \cup {Some(s) : s \in Strs}
DateDomain ==
    {None, Some(BadDate(1)), Some(BadDate(2))}
    \cup {Some(Rfc2822(l, o)) : l \in 0..1, o \in 0..1}
    \cup {Some(Rfc3339(l, o)) : l \in 0..1, o \in 0..1}

\* the values the inputs that are not varied take
NameContext == {Lit("Example"), <<Chr("a"), Chr("|")>>}
UrlContext == {Lit("https://feed.example/rss"), <<Chr("|")>>}
TitleContext == {None, Some(<<Chr("a")>>)}
LinkContext == {None, Some(<<Chr("|"), Chr("a")>>)}
DateContext == {None, Some(Rfc2822(0, 0))}

ProbeInput(name, url, title, link, pub_date) ==
    [feed |-> [name |-> name, url |-> url],
     item |-> Item(title, link, pub_date, None, Some(<<HtmlText(Lit("summary"))>>))]

\* the pairs (a, b) of inputs of which b differs from a in one input alone
ProbeIs(p) ==
    \/ \E n1 \in NameDomain, n2 \in NameDomain, u \in UrlContext, t \in TitleContext,
          l \in LinkContext, d \in DateContext :
          /\ n1 # n2
          /\ p = [which |-> "feed_name", a |-> ProbeInput(n1, u, t, l, d),
                  b |-> ProbeInput(n2, u, t, l, d)]
    \/ \E n \in NameContext, u1 \in UrlDomain, u2 \in UrlDomain, t \in TitleContext,
          l \in LinkContext, d \in DateContext :
          /\ u1 # u2
          /\ p = [which |-> "feed_url", a |-> ProbeInput(n, u1, t, l, d),
                  b |-> ProbeInput(n, u2, t, l, d)]
    \/ \E n \in NameContext, u \in UrlContext, t1 \in TitleDomain, t2 \in TitleDomain,
          l \in LinkContext, d \in DateContext :
          /\ t1 # t2
          /\ p = [which |-> "title", a |-> ProbeInput(n, u, t1, l, d),
                  b |-> ProbeInput(n, u, t2, l, d)]
    \/ \E n \in NameContext, u \in UrlContext, t \in TitleContext, l1 \in LinkDomain,
          l2 \in LinkDomain, d \in DateContext :
          /\ l1 # l2
          /\ p = [which |-> "link", a |-> ProbeInput(n, u, t, l1, d),
                  b |-> ProbeInput(n, u, t, l2, d)]
    \/ \E n \in NameContext, u \in UrlContext, t \in TitleContext, l \in LinkContext,
          d1 \in DateDomain, d2 \in DateDomain :
          /\ d1 # d2
          /\ p = [which |-> "pub_date", a |-> ProbeInput(n, u, t, l, d1),
                  b |-> ProbeInput(n, u, t, l, d2)]

InitNaming ==
    /\ files = EmptyMap
    /\ images = EmptyMap
    /\ index = <<HeaderRow>>
    /\ tasks = [t \in Tasks |-> IdleTask]
    /\ faults = 0
    /\ net = 0
    /\ cache = <<>>
    /\ reqs = [r \in Reqs |-> IdleReq]
    /\ app = NoApp
    /\ ProbeIs(probe)

\* store_channel is called once, with the first input of the pair
NextNaming ==
    \/ StoreChannel(1, probe.a.feed, <<probe.a.item>>)
    \/ ExistsCheck(1)
    \/ ArtifactCreate(1)
    \/ ArtifactWrite(1)
    \/ AppendIndex(1)

SpecNaming == InitNaming /\ [][NextNaming]_vars

----------------------------------------------------------------------------
(* The store_item calls that have returned *)

Returned == UNION {{<<t, k>> : k \in 1..Len(tasks[t].rets)} : t \in Tasks}
CallFeed(c) == tasks[c[1]].feed
CallItem(c) == tasks[c[1]].chan[c[2]]
CallFile(c) == store_filename(CallFeed(c), CallItem(c))
CallRet(c) == tasks[c[1]].rets[c[2]]
SameArgs(c, d) == CallFeed(c) = CallFeed(d) /\ CallItem(c) = CallItem(d)

\* with one caller at a time, tasks run in the order of their ids
Before(c, d) == c[1] < d[1] \/ (c[1] = d[1] /\ c[2] < d[2])

\* the data rows of index.csv that name the artifact `filename`
RowsFor(filename) ==
    Cardinality({n \in 2..Len(index) : index[n].path = path_string(filename)})

AllDone == \A t \in Tasks : tasks[t].pc \in {"idle", "done"}

----------------------------------------------------------------------------
(* C1: of two successive store_item calls with the same arguments, made by
   one caller at a time, the first of which succeeds, the second returns the
   same text, and from then on the store holds the artifact of that identity
   and index.csv holds exactly one data row for it. *)
C1_Idempotent ==
    \A c, d \in Returned :
        (Before(c, d) /\ SameArgs(c, d) /\ IsSome(CallRet(c).res)) =>
            /\ CallRet(d).res = CallRet(c).res
            /\ Exists(files, CallFile(c))
            /\ RowsFor(CallFile(c)) = 1

(* C2: a store_item call that finds its artifact file present sends no
   request, writes no artifact, no image and no index row, and returns the
   contents of the file as they are when it reads them. *)
C2_FastPathFrame ==
    [][\A t \in Tasks :
         (/\ tasks[t].pc \in {"exists", "read"}
          /\ Exists(files, CurFile(tasks[t]))
          /\ tasks'[t] # tasks[t]) =>
            /\ UNCHANGED <<files, images, index, net>>
            /\ tasks[t].pc = "exists" => tasks'[t].pc = "read"
            /\ tasks[t].pc = "read" =>
                  /\ Len(tasks'[t].rets) = Len(tasks[t].rets) + 1
                  /\ tasks'[t].rets[Len(tasks'[t].rets)] =
                        [hit |-> TRUE, res |-> Some(files[CurFile(tasks[t])]),
                         eff |-> NoEffect]]_vars

\* a call has found the artifact present and returned its text, which holds
\* a localized image
C2_Witness ==
    \E c \in Returned :
        /\ CallRet(c).hit
        /\ CallRet(c).res = Some(files[CallFile(c)])
        /\ \E n \in 1..Len(files[CallFile(c)]) :
              files[CallFile(c)][n].k = "md" /\ files[CallFile(c)][n].s # UrlPng

(* C3: when concurrent store_channel tasks that ingest the same item have all
   returned and no filesystem operation has failed, index.csv holds exactly
   one data row for every identity a call returned Ok for. *)
C3_OneRowPerIdentity ==
    (AllDone /\ faults = 0) =>
        \A c \in Returned : IsSome(CallRet(c).res) => RowsFor(CallFile(c)) = 1

(* C4: every write to the artifact file of an identity writes the same bytes:
   any two calls that have written the file for the same identity wrote the
   same text. *)
Written ==
    {<<CallFile(c), Unwrap(CallRet(c).res)>> :
        c \in {d \in Returned : ~CallRet(d).hit /\ IsSome(CallRet(d).res)}}
    \cup {<<CurFile(tasks[t]), tasks[t].out>> : t \in {u \in Tasks : tasks[u].pc = "append"}}

C4_SameBytes ==
    \A w, x \in Written : w[1] = x[1] => w[2] = x[2]

(* C5: after store_item(feed, item) has returned Ok(text),
   read_item_markdown(feed, item) is Some(text). *)
C5_ReadAfterStore ==
    \A c \in Returned :
        IsSome(CallRet(c).res) =>
            read_item_markdown(CallFeed(c), CallItem(c)) = CallRet(c).res

(* C6 as stated: when store_item has ingested the first input of a pair, any
   second input that differs from it in one of feed name, feed URL, title,
   link or publish date has another filename and is read back as absent. *)
ProbeStored == tasks[1].pc = "done" /\ tasks[1].res = "ok"

C6_AnyInputChangeMisses ==
    ProbeStored =>
        /\ read_filename(probe.b.feed, probe.b.item) # store_filename(probe.a.feed, probe.a.item)
        /\ read_item_markdown(probe.b.feed, probe.b.item) = None

\* the five values the digest is taken over
IdentityOf(x) ==
    <<x.feed.name, x.feed.url, UnwrapOr(x.item.title, Lit("No Title")),
      UnwrapOr(x.item.link, EmptyStr),
      UnwrapOr(parse_pub_date(x.item.pub_date), EmptyStr)>>

(* C6 amended: when store_item has ingested the first input of a pair, a
   second input that differs from it in one raw input is read back as absent,
   under another filename, exactly when the change changes one of the five
   values the digest is taken over (feed name, feed URL, the title or
   "No Title", the link or "", the publish date normalised to UTC or "");
   otherwise it has the same filename and is read back as the stored text. *)
C6_IdentityChangeMisses ==
    ProbeStored =>
        IF IdentityOf(probe.a) # IdentityOf(probe.b)
        THEN /\ read_filename(probe.b.feed, probe.b.item)
                    # store_filename(probe.a.feed, probe.a.item)
             /\ read_item_markdown(probe.b.feed, probe.b.item) = None
        ELSE /\ read_filename(probe.b.feed, probe.b.item)
                    = store_filename(probe.a.feed, probe.a.item)
             /\ read_item_markdown(probe.b.feed, probe.b.item) = Some(tasks[1].rets[1].res[1])

\* an item has been ingested, and the same item dated another instant is
\* read back as absent
C6_Witness ==
    /\ ProbeStored
    /\ probe.which = "pub_date"
    /\ IsSome(parse_pub_date(probe.a.item.pub_date))
    /\ IsSome(parse_pub_date(probe.b.item.pub_date))
    /\ IsSome(read_item_markdown(probe.a.feed, probe.a.item))
    /\ read_item_markdown(probe.b.feed, probe.b.item) = None

\* the steps in which a display layer calls read_item_markdown
ServerReads(r) ==
    /\ reqs[r].pc \in {"lock", "set"}
    /\ reqs'[r].pc = "done"
    /\ reqs[r].kind = "item"
    /\ reqs'[r].resp.status = 200

TuiReads ==
    /\ app.current_screen = "Items"
    /\ app'.current_screen = "Article"
    /\ IsSome(VecGet(app.current_items, Unwrap(app.item_state)))

(* C7: a step in which get_item or the article view reads an item back
   leaves the artifact files, the image files and index.csv as they are,
   sends no request and starts no ingestion, whether the artifact is present
   or not. *)
C7_ReadFrame ==
    [][((\E r \in Reqs : ServerReads(r)) \/ TuiReads) =>
          UNCHANGED <<files, images, index, net, tasks, faults>>]_vars

\* the article view shows the stored text of an item with a localized image
C7_Witness ==
    /\ app.current_screen = "Article"
    /\ app.current_items = <<ItemHello>>
    /\ Exists(files, store_filename(FeedEx, ItemHello))
    /\ Exists(images, image_filename(UrlPng, None))
    /\ article_body(app) = markdown_to_lines(files[store_filename(FeedEx, ItemHello)])

\* the channel a handler holds when it goes on to the item
HeldChannel(r) ==
    IF reqs[r].pc = "set" THEN reqs[r].chan
    ELSE Unwrap(Unwrap(VecGet(cache, reqs[r].index)))

(* C8: when get_item reaches an item whose artifact file is not in the store,
   it answers 200 with the item and the "still processing" text; when the
   article view is opened on such an item, it shows the "still processing"
   line and no error. *)
C8_AbsentIsProcessing ==
    [][/\ \A r \in Reqs :
            (/\ reqs[r].pc \in {"lock", "set"}
             /\ reqs'[r].pc = "done"
             /\ reqs[r].kind = "item"
             /\ IsSome(VecGet(HeldChannel(r), reqs[r].item_index))
             /\ ~Exists(files, store_filename(ConfigFeeds[reqs[r].index + 1],
                               Unwrap(VecGet(HeldChannel(r), reqs[r].item_index))))) =>
                reqs'[r].resp =
                    JsonOk(ItemContent(Unwrap(VecGet(HeldChannel(r), reqs[r].item_index)),
                                       StillProcessingHtml))
       /\ (/\ TuiReads
           /\ ~Exists(files, store_filename(
                               [name |-> Unwrap(app.current_feed_name),
                                url |-> Unwrap(app.current_feed_url)],
                               Unwrap(VecGet(app.current_items, Unwrap(app.item_state)))))) =>
              /\ article_body(app') = StillProcessingLine
              /\ app'.status_message = Lit("Reading article")]_vars

\* get_item has answered "still processing" for an item whose image is
\* being requested
C8_Witness ==
    \E r \in Reqs :
        /\ reqs[r].pc = "done"
        /\ reqs[r].resp = JsonOk(ItemContent(ItemHello, StillProcessingHtml))
        /\ ~Exists(files, store_filename(FeedEx, ItemHello))
        /\ \E t \in Tasks : tasks[t].pc = "send"

(* C9: a store_item call never returns the error of an image request or of an
   image write: it absorbs it, writes the artifact and appends the row. *)
C9_ImageFailureAbsorbed ==
    \A c \in Returned : CallRet(c).eff.why \notin {"image request", "image write"}

(* C10: a store_item call that found its item not yet stored sends no request
   for an image URL that does not parse or whose scheme is not http or https,
   and download_image returns absent for it; and a call for which
   download_image returned absent for every image (such a URL, or a response
   with a non-success status) writes no image file, fails only if the write
   of the artifact or of the index row fails, and returns a text that
   references every image by its original URL. *)
C10_UnfetchedImageKept ==
    \A c \in Returned :
        LET r == CallRet(c)
            urls == extract_image_urls(extract_markdown(CallItem(c)))
        IN  ~r.hit =>
              /\ urls \subseteq {UrlFtp, UrlRel} =>
                    r.eff.net = 0 /\ r.eff.absent = Cardinality(urls)
              /\ (urls # {} /\ r.eff.absent = Cardinality(urls)) =>
                    /\ r.eff.img = 0
                    /\ r.eff.why \in {"none", "artifact", "index"}
                    /\ r.eff.why = "none" => IsSome(r.res)
                    /\ IsSome(r.res) =>
                          \A u \in urls : \E n \in 1..Len(Unwrap(r.res)) :
                              Unwrap(r.res)[n].k = "md" /\ Unwrap(r.res)[n].s = u

\* an item with an ftp image and a relative one has been stored without a
\* request, and an item whose image was answered 404 has been stored
C10_Witness ==
    /\ \E c \in Returned :
          /\ CallItem(c) = ItemFtp /\ IsSome(CallRet(c).res)
          /\ CallRet(c).eff.absent = 2 /\ CallRet(c).eff.net = 0
          /\ Exists(files, CallFile(c))
    /\ \E c \in Returned :
          /\ CallItem(c) = ItemHello /\ IsSome(CallRet(c).res)
          /\ CallRet(c).eff.absent = 1 /\ CallRet(c).eff.net = 1
          /\ \E n \in 1..Len(Unwrap(CallRet(c).res)) :
                Unwrap(CallRet(c).res)[n] = MdImg(EmptyStr, UrlPng)

\* the local references a text holds
LocalRefs(text) ==
    {text[n].s : n \in {m \in 1..Len(text) :
                           text[m].k = "md" /\ StartsAt(text[m].s, 1, Lit("/images/"))}}

CallUrls(c) == extract_image_urls(extract_markdown(CallItem(c)))

(* C11: with one caller at a time, once a store_item call has localized the
   one image URL of its article (download_image returned a reference to a
   file on disk), a later call for another article with the same image URL
   sends no request and its text holds the same local reference. *)
C11_AtMostOneFetch ==
    \A c, d \in Returned :
        (/\ Before(c, d) /\ ~CallRet(c).hit /\ ~CallRet(d).hit
         /\ CallUrls(c) = CallUrls(d) /\ Cardinality(CallUrls(c)) = 1
         /\ IsSome(CallRet(c).res) /\ LocalRefs(Unwrap(CallRet(c).res)) # {}) =>
            /\ CallRet(d).eff.net = 0
            /\ IsSome(CallRet(d).res) =>
                  LocalRefs(Unwrap(CallRet(d).res)) = LocalRefs(Unwrap(CallRet(c).res))

(* C12: a download_image call that finds a file with the provisional filename
   of its URL returns the reference to that file in the same step: no request
   is sent, no file is written, and the reference goes into the text. *)
C12_ProvisionalFastPath ==
    [][\A t \in Tasks :
         LET tk == tasks[t]
             url == CurUrl(tk)
             local == [url |-> url, local |-> local_reference(image_filename(url, None))]
         IN  (/\ tk.pc = "dl"
              /\ ~HasKey(tk.repl, url)
              /\ url_scheme(url) \in {Some("http"), Some("https")}
              /\ Exists(images, image_filename(url, None))
              /\ tasks'[t] # tk) =>
                /\ UNCHANGED <<files, images, index, net, faults>>
                /\ tasks'[t].eff = tk.eff
                /\ tasks'[t].pc \in {"dl", "create"}
                /\ tasks'[t].pc = "dl" => local \in tasks'[t].repl
                /\ tasks'[t].pc = "create" =>
                      tasks'[t].out \in rewritten(extract_markdown(CurItem(tk)),
                                                  tk.repl \cup {local})]_vars

\* a call has put the reference to an image file into its text without
\* sending a request or writing a file
C12_Witness ==
    \E c \in Returned :
        /\ ~CallRet(c).hit /\ IsSome(CallRet(c).res)
        /\ CallRet(c).eff.net = 0 /\ CallRet(c).eff.img = 0
        /\ LocalRefs(Unwrap(CallRet(c).res)) # {}
        /\ \A ref \in LocalRefs(Unwrap(CallRet(c).res)) :
              \E f \in DOMAIN images : ref = local_reference(f)


----------------------------------------------------------------------------
(* The extension specification: one http(s) image URL and the content type
   its response declares; the download stores the bytes under the final
   name, db.rs 220-231 *)

ExtSuffixes == {"png", "PNG", "jpg", "JPEG", "gif", "webp", "svg", "svgz", "php"}

ExtUrls ==
    LET bases == {<<Chr("https://"), Chr("img.example/a")>>,
                  <<Chr("http://"), Chr("img.example/a")>>}
    IN  bases \cup {b \o <<Chr("."), Chr(e)>> : b \in bases, e \in ExtSuffixes}

ExtContentTypes ==
    {None, Some(Lit("image/png")), Some(Lit("image/jpeg")), Some(Lit("image/jpg")),
     Some(Lit("image/webp")), Some(Lit("image/gif")), Some(Lit("image/svg+xml")),
     Some(Lit("text/html")), Some(<<Chr("image/png"), Chr("; charset=binary")>>)}

InitExt ==
    /\ files = EmptyMap
    /\ images = EmptyMap
    /\ index = <<HeaderRow>>
    /\ tasks = [t \in Tasks |-> IdleTask]
    /\ faults = 0
    /\ net = 0
    /\ cache = <<>>
    /\ reqs = [r \in Reqs |-> IdleReq]
    /\ app = NoApp
    /\ \E url \in ExtUrls, content_type \in ExtContentTypes :
          probe = [url |-> url, content_type |-> content_type]

\* the response was a success: the final name is computed and, no file of
\* that name existing, the bytes are written
StoreDownloaded ==
    LET filename == image_filename(probe.url, probe.content_type)
    IN  /\ net = 0
        /\ ~Exists(images, filename)
        /\ images' = Put(images, filename, "PNG1")
        /\ net' = 1
        /\ UNCHANGED <<files, index, tasks, faults, cache, reqs, app, probe>>

NextExt == StoreDownloaded

SpecExt == InitExt /\ [][NextExt]_vars

\* the extension of a stored asset name: its last chunk
StoredExtension(filename) == filename[Len(filename)].c

(* C13: after a successful fetch the stored asset's extension is the one of
   the declared content type when that is recognised, else the one of the
   URL's path suffix, else the generic "img"; a URL ending in .jpg served as
   image/png is stored as png. *)
C13_ContentTypeFirst ==
    \A f \in DOMAIN images :
        LET by_type == content_type_extension(probe.content_type)
            by_path == url_path_extension(probe.url)
            expected == IF IsSome(by_type) THEN Unwrap(by_type)
                        ELSE IF IsSome(by_path) THEN owned_extension(Unwrap(by_path))
                        ELSE "img"
        IN  StoredExtension(f) = expected

----------------------------------------------------------------------------
\* the asset files whose name carries the digest of `url`
FilesFor(url) == {f \in DOMAIN images : f[1] = hash_string(url)[1]}

\* the store_item calls that ran download_image for `url` alone and
\* returned a text holding a local reference
Localized(url) ==
    {c \in Returned : /\ ~CallRet(c).hit
                      /\ CallUrls(c) = {url}
                      /\ IsSome(CallRet(c).res)
                      /\ LocalRefs(Unwrap(CallRet(c).res)) # {}}

ImageUrls == {UrlPng, UrlBare}

(* C14 as stated: two concurrent download_image calls on one URL return the
   same local reference under every interleaving, and at most one asset
   file exists for that URL. *)
C14_SameReferenceOneFile ==
    \A url \in ImageUrls :
        /\ \A c, d \in Localized(url) :
              c[1] # d[1] =>
                 LocalRefs(Unwrap(CallRet(c).res)) = LocalRefs(Unwrap(CallRet(d).res))
        /\ Cardinality(FilesFor(url)) <= 1

(* C14 as amended: every local reference a download_image call returned
   names an asset file that exists and carries the digest of the URL; for a
   URL whose path has a suffix, concurrent calls return the same reference
   and at most one asset file exists, whatever the responses declare. *)
C14_ConvergePerExtension ==
    \A url \in ImageUrls :
        /\ \A c \in Localized(url) :
              \A ref \in LocalRefs(Unwrap(CallRet(c).res)) :
                 \E f \in FilesFor(url) : ref = local_reference(f)
        /\ IsSome(url_path_extension(url)) =>
              /\ \A c, d \in Localized(url) :
                    LocalRefs(Unwrap(CallRet(c).res)) = LocalRefs(Unwrap(CallRet(d).res))
              /\ Cardinality(FilesFor(url)) <= 1

\* two tasks have each fetched the same suffixed URL and returned a reference
C14_Witness ==
    \E c, d \in Localized(UrlPng) :
        /\ c[1] # d[1]
        /\ CallRet(c).eff.net = 1
        /\ CallRet(d).eff.net = 1
        /\ Cardinality(FilesFor(UrlPng)) = 1

(* C15: an asset file that exists is never overwritten: under any
   interleaving of download_image calls no step changes the bytes of an
   existing file of the image directory or removes it. *)
C15_AssetImmutable ==
    [][\A f \in DOMAIN images : Exists(images', f) /\ images'[f] = images[f]]_vars

(* C16: whenever a store_item call has returned success for an item,
   index.csv holds a row for that item's artifact, also when an earlier call
   for the item wrote the artifact and failed before its index append. *)
C16_SuccessHasRow ==
    \A c \in Returned :
        IsSome(CallRet(c).res) => RowsFor(CallFile(c)) >= 1

----------------------------------------------------------------------------
(* The log specification: while store_channel calls run, the program is
   started again on the same store directory (Database::initialize), and
   index.csv can be removed or emptied from outside the program, the case
   for which initialize (db.rs 38-42) and the append (db.rs 106-110, create)
   provide *)

\* (mutant) the log is opened with File::create, which truncates it
Initialize_truncating ==
    /\ \/ /\ index' = <<HeaderRow>>
          /\ UNCHANGED faults
       \/ /\ faults < MaxFaults
          /\ faults' = faults + 1
          /\ UNCHANGED index
    /\ UNCHANGED <<files, images, tasks, net, clientVars>>

\* Database::initialize, db.rs 32-66: the header is written when index.csv
\* is missing or empty; opening or writing can fail
Initialize ==
    LET needs_header == Len(index) = 0 IN
    /\ \/ /\ index' = IF needs_header THEN <<HeaderRow>> ELSE index
          /\ UNCHANGED faults
       \/ /\ faults < MaxFaults
          /\ faults' = faults + 1
          /\ UNCHANGED index
    /\ UNCHANGED <<files, images, tasks, net, clientVars>>

\* index.csv is removed or truncated to length zero by something other
\* than the program
IndexLost ==
    /\ Len(index) > 0
    /\ index' = <<>>
    /\ UNCHANGED <<files, images, tasks, faults, net, clientVars>>

NextLog ==
    \/ \E t \in Tasks, chan \in ConcChannels : StoreChannel(t, FeedEx, chan)
    \/ \E t \in Tasks : Step(t)
    \/ Initialize
    \/ IndexLost

SpecLog == Init /\ [][NextLog]_vars

IsPrefix(s, t) == Len(s) <= Len(t) /\ SubSeq(t, 1, Len(s)) = s

(* C17: index.csv is append-only: no step of an initialize or store_item
   call rewrites, reorders or removes an existing row; the rows before the
   step are a prefix of the rows after it. *)
C17_AppendOnly ==
    [][IndexLost \/ IsPrefix(index, index')]_vars

\* two calls have each appended a row and the log holds the header and one
\* data row: after a loss, initialize wrote the header and a call appended
C17_Witness ==
    /\ Len(index) = 2
    /\ index[1] = HeaderRow
    /\ index[2] # HeaderRow
    /\ Cardinality({c \in Returned : CallRet(c).eff.idx = 1}) = 2

(* C18: in every reachable state in which index.csv holds a row, its first
   row is the header, also when the log is missing or empty at the moment
   of an append. *)
C18_HeaderFirst ==
    Len(index) > 0 => index[1] = HeaderRow

----------------------------------------------------------------------------
(* The liveness specification: a started store_channel call takes its next
   step as long as it has one; the image server may accept a request and
   never answer it *)

\* download_image 215-216: the client is built by reqwest::Client::new(),
\* with no timeout, so send().await stays pending when no response comes
DownloadHang(t) ==
    LET tk == tasks[t] IN
    /\ tk.pc = "send"
    /\ net' = net + 1
    /\ tasks' = [tasks EXCEPT ![t] = [tk EXCEPT !.eff = Bump(tk.eff, "net"), !.pc = "hung"]]
    /\ UNCHANGED <<files, images, index, faults, clientVars>>

NextLive ==
    \/ \E t \in Tasks, chan \in ConcChannels : StoreChannel(t, FeedEx, chan)
    \/ \E t \in Tasks : Step(t)
    \/ \E t \in Tasks : DownloadHang(t)

SpecLive ==
    /\ Init
    /\ [][NextLive]_vars
    /\ \A t \in Tasks : WF_vars(Step(t))

(* C19: every store_item call eventually returns: when the image server
   never responds, the fetch times out and ingestion of the item completes. *)
C19_EveryCallReturns ==
    \A t \in Tasks : (tasks[t].pc \notin {"idle", "done"}) ~> (tasks[t].pc = "done")

----------------------------------------------------------------------------
(* C20: no reachable state has an artifact file that exists and holds less
   than the complete converted text of its item, so the existence check
   never accepts a half-written artifact. *)
C20_NoPartialArtifact ==
    \A t \in Tasks : \A i \in 1..Len(tasks[t].chan) :
        LET item == tasks[t].chan[i]
            f == store_filename(tasks[t].feed, item)
        IN  Exists(files, f) => Len(files[f]) = Len(extract_markdown(item))

----------------------------------------------------------------------------
(* The tuple specification: two store_item inputs whose feed name, feed URL
   and title are drawn freely from the strings over 'a' and the separator;
   the first is ingested *)

TupleInputs ==
    {ProbeInput(n, u, Some(t), None, None) :
        n \in Strs, u \in StrsUpTo(1), t \in StrsUpTo(1)}

InitTuple ==
    /\ files = EmptyMap
    /\ images = EmptyMap
    /\ index = <<HeaderRow>>
    /\ tasks = [t \in Tasks |-> IdleTask]
    /\ faults = 0
    /\ net = 0
    /\ cache = <<>>
    /\ reqs = [r \in Reqs |-> IdleReq]
    /\ app = NoApp
    /\ \E a \in TupleInputs, b \in TupleInputs :
          /\ a # b
          /\ probe = [which |-> "any", a |-> a, b |-> b]

SpecTuple == InitTuple /\ [][NextNaming]_vars

(* C21: two distinct tuples (feed name, feed URL, title, link, timestamp)
   give distinct hash inputs and so distinct artifact filenames: when the
   first is ingested, the second is read back as absent. *)
C21_DistinctTuplesDistinctNames ==
    (ProbeStored /\ IdentityOf(probe.a) # IdentityOf(probe.b)) =>
        /\ store_filename(probe.b.feed, probe.b.item)
              # store_filename(probe.a.feed, probe.a.item)
        /\ read_item_markdown(probe.b.feed, probe.b.item) = None

----------------------------------------------------------------------------
\* the instant a well-formed publish date denotes
Instant(d) == d.local - d.off
WellFormed(pub_date) == IsSome(pub_date) /\ Unwrap(pub_date).fmt \in {"rfc2822", "rfc3339"}

(* C22: the publish date is parsed from either format and normalised to
   UTC: of two items that differ only in how the date is written, the second
   has the identity of the ingested first when both dates denote the same
   instant; when the date of the ingested item is absent or unparseable its
   identity is computed from the empty string and the time field of its
   index row is the current time. *)
C22_DateNormalised ==
    (ProbeStored /\ probe.which = "pub_date") =>
        LET da == probe.a.item.pub_date
            db == probe.b.item.pub_date
        IN  /\ (WellFormed(da) /\ WellFormed(db) /\ Instant(Unwrap(da)) = Instant(Unwrap(db))) =>
                  /\ store_filename(probe.b.feed, probe.b.item)
                        = store_filename(probe.a.feed, probe.a.item)
                  /\ read_item_markdown(probe.b.feed, probe.b.item)
                        = read_item_markdown(probe.a.feed, probe.a.item)
            /\ (WellFormed(da) /\ WellFormed(db) /\ Instant(Unwrap(da)) # Instant(Unwrap(db))) =>
                  store_filename(probe.b.feed, probe.b.item)
                        # store_filename(probe.a.feed, probe.a.item)
            /\ ~WellFormed(da) =>
                  /\ store_filename(probe.a.feed, probe.a.item) =
                        item_filename(probe.a.feed.name, probe.a.feed.url,
                                      store_title(probe.a.item), store_link(probe.a.item),
                                      EmptyStr)
                  /\ index[Len(index)].time = NowStr

\* an item dated in one format is ingested; the same item with the same
\* instant in the other format and another offset is read back as present
C22_Witness ==
    /\ ProbeStored
    /\ probe.which = "pub_date"
    /\ WellFormed(probe.a.item.pub_date)
    /\ WellFormed(probe.b.item.pub_date)
    /\ Unwrap(probe.a.item.pub_date).fmt # Unwrap(probe.b.item.pub_date).fmt
    /\ Unwrap(probe.a.item.pub_date).off # Unwrap(probe.b.item.pub_date).off
    /\ IsSome(read_item_markdown(probe.b.feed, probe.b.item))

----------------------------------------------------------------------------
\* the step in which the store_item call of task t returns success after
\* its index append
AppendsRow(t) ==
    /\ tasks[t].pc = "append"
    /\ Len(tasks'[t].rets) = Len(tasks[t].rets) + 1
    /\ IsSome(tasks'[t].rets[Len(tasks'[t].rets)].res)

(* C23: ingesting a new item appends exactly one row to index.csv, whose
   fields are the publish date normalised to UTC (the current time when
   there is none), the item's title (the placeholder when absent), the feed
   name, and the path of the artifact just written. *)
C23_RowFields ==
    [][\A t \in Tasks :
         AppendsRow(t) =>
            LET item == CurItem(tasks[t])
                feed == tasks[t].feed
                row == index'[Len(index')]
            IN  /\ index' = Append(index, row)
                /\ tasks'[t].rets[Len(tasks'[t].rets)].eff.idx = 1
                /\ row.time = IF WellFormed(item.pub_date)
                              THEN <<[utc |-> Instant(Unwrap(item.pub_date))]>>
                              ELSE NowStr
                /\ row.article_name = IF IsSome(item.title) THEN Unwrap(item.title)
                                      ELSE Lit("No Title")
                /\ row.rss_subscription_name = feed.name
                /\ row.path = path_string(CurFile(tasks[t]))
                /\ Exists(files, CurFile(tasks[t]))]_vars

\* rows have been appended for a dated item and for an undated one
C23_Witness ==
    /\ \E n \in 2..Len(index) : index[n].time = NowStr /\ index[n].article_name = Lit("Ftp")
    /\ \E n \in 2..Len(index) : index[n].time = <<[utc |-> 0]>>

----------------------------------------------------------------------------
(* The row specification: the index append at the grain of the writes that
   reach the file.  csv::Writer collects a record in its buffer;
   write_record (db.rs 114-121) hands the buffer to the file when a record
   fills it, and flush (db.rs 122) hands over what is left.  The file is
   opened for appending, so each write lands whole at the end of the file.
   Here index.csv is the sequence of those writes: a whole row, or a part
   of one. *)

\* the capacity of the buffer of csv::WriterBuilder::new(), in characters of
\* the model's strings
BufferCapacity == 8

record_size(row) ==
    Len(row.time) + Len(row.article_name) + Len(row.rss_subscription_name) + Len(row.path)

\* an item whose record does not fit the buffer
ItemLong ==
    [ItemPlain EXCEPT !.title = Some(<<Chr("L"), Chr("o"), Chr("n"), Chr("g"), Chr("!")>>)]

RowChannels == { <<ItemLong>>, <<ItemPlain>> }

RowPart(n, row, t) == [part |-> n, of |-> row, by |-> t]
IsPart(w, n) == "part" \in DOMAIN w /\ w.part = n

\* store_item 106-121: the log is opened and the record written to the
\* writer, which passes on a full buffer
IndexWriteRecord(t) ==
    LET tk == tasks[t]
        row == index_row(tk.feed, CurItem(tk))
    IN
    /\ tk.pc = "append"
    /\ \/ /\ index' = IF record_size(row) > BufferCapacity
                      THEN Append(index, RowPart(1, row, t))
                      ELSE index
          /\ tasks' = [tasks EXCEPT ![t] = [tk EXCEPT !.pc = "flush"]]
          /\ UNCHANGED faults
       \/ /\ faults < MaxFaults
          /\ faults' = faults + 1
          /\ tasks' = [tasks EXCEPT ![t] = ItemErr(tk, "index")]
          /\ UNCHANGED index
    /\ UNCHANGED <<files, images, net, clientVars>>

\* store_item 122-124: writer.flush() writes the rest of the record
IndexFlush(t) ==
    LET tk == tasks[t]
        row == index_row(tk.feed, CurItem(tk))
    IN
    /\ tk.pc = "flush"
    /\ \/ /\ index' = IF record_size(row) > BufferCapacity
                      THEN Append(index, RowPart(2, row, t))
                      ELSE Append(index, row)
          /\ tasks' = [tasks EXCEPT ![t] = ItemOk([tk EXCEPT !.eff = Bump(tk.eff, "idx")], tk.out)]
          /\ UNCHANGED faults
       \/ /\ faults < MaxFaults
          /\ faults' = faults + 1
          /\ tasks' = [tasks EXCEPT ![t] = ItemErr(tk, "index")]
          /\ UNCHANGED index
    /\ UNCHANGED <<files, images, net, clientVars>>

NextRows ==
    \/ \E t \in Tasks, chan \in RowChannels : StoreChannel(t, FeedEx, chan)
    \/ \E t \in Tasks : ExistsCheck(t)
    \/ \E t \in Tasks : ReadExisting(t)
    \/ \E t \in Tasks : ArtifactCreate(t)
    \/ \E t \in Tasks : ArtifactWrite(t)
    \/ \E t \in Tasks : IndexWriteRecord(t)
    \/ \E t \in Tasks : IndexFlush(t)

SpecRows == Init /\ [][NextRows]_vars

(* C24: concurrent index appends interleave as whole rows: in every
   interleaving each row of index.csv is the complete record written by one
   call; the parts of a record are never separated by another call's
   writes (only the record in flight, at the end of the file, may be
   incomplete). *)
C24_WholeRows ==
    \A n \in 1..Len(index) :
        /\ (IsPart(index[n], 1) /\ n < Len(index)) =>
              /\ IsPart(index[n + 1], 2)
              /\ index[n + 1].by = index[n].by
        /\ IsPart(index[n], 2) =>
              /\ n > 1
              /\ IsPart(index[n - 1], 1)
              /\ index[n - 1].by = index[n].by

----------------------------------------------------------------------------
\* a store_channel task has been spawned with the name and URL of `feed`
SpawnedFor(feed) == \E t \in Tasks : tasks[t].pc # "idle" /\ tasks[t].feed = feed

\* the name and URL App::load_markdown_for_selected passes to the store
TuiReadFeed ==
    [name |-> UnwrapOr(app.current_feed_name, Lit("Unknown Feed")),
     url |-> UnwrapOr(app.current_feed_url, Lit("unknown"))]

(* C25: whenever get_item or the article view of the terminal interface
   reads an item back, a store_channel task has been spawned for that feed,
   with the feed name and feed URL the read passes to read_item_markdown. *)
C25_ReadsWhatWasIngested ==
    [][/\ \A r \in Reqs :
             ServerReads(r) => SpawnedFor(ConfigFeeds[reqs[r].index + 1])
       /\ TuiReads => SpawnedFor(TuiReadFeed)]_vars

----------------------------------------------------------------------------
(* The rewriting specification: a converted text of at most two segments
   and a map of replacements for some of its image URLs; localize_images
   rewrites the text, db.rs 193-197 *)

RewriteSegments ==
    { Txt(Lit("Hi ")), MdImg(Lit("A"), UrlPng), ImgTag(Lit("A"), UrlPng),
      MdImg(Lit("b"), UrlBare), ImgTag(Lit("b"), UrlBare), ImgTag(Lit("c"), UrlFtp) }

RewriteTexts ==
    {<<>>} \cup {<<x>> : x \in RewriteSegments}
           \cup {<<x, y>> : x \in RewriteSegments, y \in RewriteSegments}

\* what download_image returns for a URL it has stored
RewriteEntries ==
    { [url |-> UrlPng, local |-> local_reference(image_filename(UrlPng, None))],
      [url |-> UrlBare, local |-> local_reference(image_filename(UrlBare, None))] }

InitRewrite ==
    /\ files = EmptyMap
    /\ images = EmptyMap
    /\ index = <<HeaderRow>>
    /\ tasks = [t \in Tasks |-> IdleTask]
    /\ faults = 0
    /\ net = 0
    /\ cache = <<>>
    /\ reqs = [r \in Reqs |-> IdleReq]
    /\ app = NoApp
    /\ \E markdown \in RewriteTexts, replacements \in SUBSET RewriteEntries :
          /\ \A e \in replacements : e.url \in extract_image_urls(markdown)
          /\ probe = [markdown |-> markdown, replacements |-> replacements,
                      urls |-> None, out |-> None]

\* localize_images 178: the URLs of the text
ExtractUrls ==
    /\ probe.urls = None
    /\ probe' = [probe EXCEPT !.urls = Some(extract_image_urls(probe.markdown))]
    /\ UNCHANGED <<files, images, index, tasks, faults, net, cache, reqs, app>>

\* localize_images 193-197: the tags, then every entry of the map in the
\* order the HashMap yields them
Rewrite ==
    /\ probe.urls # None
    /\ probe.out = None
    /\ \E text \in rewritten(probe.markdown, probe.replacements) :
          probe' = [probe EXCEPT !.out = Some(text)]
    /\ UNCHANGED <<files, images, index, tasks, faults, net, cache, reqs, app>>

NextRewrite == ExtractUrls \/ Rewrite

SpecRewrite == InitRewrite /\ [][NextRewrite]_vars

\* the entry of the map for `url`, if any
MappedTo(replacements, url) ==
    IF \E e \in replacements : e.url = url
    THEN (CHOOSE e \in replacements : e.url = url).local
    ELSE url

(* C26: rewriting turns an img tag with alt A whose source is mapped into
   ![A](local), a bracket-form image whose URL is mapped into ![A](local),
   and an img tag whose source is not mapped into the bracket form pointing
   at its original URL; text is left as it is. *)
C26_RewriteRoundTrip ==
    IsSome(probe.out) =>
        LET text == probe.markdown
            out == Unwrap(probe.out)
        IN  /\ Len(out) = Len(text)
            /\ \A n \in 1..Len(text) :
                  out[n] = IF text[n].k \in {"md", "tag"}
                           THEN MdImg(text[n].alt, MappedTo(probe.replacements, text[n].s))
                           ELSE text[n]

----------------------------------------------------------------------------
(* The extraction specification: extract_image_urls applied to a text of at
   most two segments, among them a bracket-form image with a title *)

ExtractTexts ==
    LET segments == RewriteSegments \cup {MdImgTitled(Lit("A"), UrlPng, Lit("logo"))}
    IN  {<<>>} \cup {<<x>> : x \in segments} \cup {<<x, y>> : x \in segments, y \in segments}

InitExtract ==
    /\ files = EmptyMap
    /\ images = EmptyMap
    /\ index = <<HeaderRow>>
    /\ tasks = [t \in Tasks |-> IdleTask]
    /\ faults = 0
    /\ net = 0
    /\ cache = <<>>
    /\ reqs = [r \in Reqs |-> IdleReq]
    /\ app = NoApp
    /\ \E markdown \in ExtractTexts :
          probe = [markdown |-> markdown, replacements |-> {}, urls |-> None, out |-> None]

NextExtract == ExtractUrls

SpecExtract == InitExtract /\ [][NextExtract]_vars

\* the source URLs of the images a text references, in either syntax
ImageSources(text) ==
    {text[n].s : n \in {m \in 1..Len(text) : text[m].k \in {"md", "mdt", "tag"}}}

(* C27: extract_image_urls returns exactly the set of the distinct source
   URLs of the images the text references in the bracket form or in an img
   tag, and nothing else. *)
C27_ExactUrls ==
    IsSome(probe.urls) => Unwrap(probe.urls) = ImageSources(probe.markdown)

----------------------------------------------------------------------------
(* C28: every data row of index.csv names an artifact file that exists:
   store_item writes the artifact before it appends the row, so no
   reachable state, also after a failure at any step, has a row without
   its artifact. *)
C28_RowHasArtifact ==
    \A n \in 2..Len(index) :
        \E f \in DOMAIN files : index[n].path = Lit("data/articles/") \o f

\* a row has been appended for one item while the ingestion of another
\* failed at its artifact or at its index append
C28_Witness ==
    /\ Len(index) >= 2
    /\ \E c \in Returned :
          /\ ~IsSome(CallRet(c).res)
          /\ CallRet(c).eff.why \in {"artifact", "index"}

----------------------------------------------------------------------------
(* The once specification: store_channel calls on articles that show one
   image more than once, in both syntaxes *)

\* the same image in the bracket form and as a sized tag
ItemTwice ==
    Item(Some(Lit("Twice")), None, None,
         Some(<<HtmlImg(Lit("A"), UrlPng, FALSE), HtmlImg(Lit("A"), UrlPng, TRUE)>>), None)

OnceChannels == { <<ItemTwice>>, <<ItemBare, ItemTwice>> }

NextOnce ==
    \/ \E t \in Tasks, chan \in OnceChannels : StoreChannel(t, FeedEx, chan)
    \/ \E t \in Tasks : Step(t)

SpecOnce == Init /\ [][NextOnce]_vars

Range(s) == {s[n] : n \in 1..Len(s)}

(* C29: within one localize_images call download_image is invoked at most
   once for each distinct image URL of the text: the URLs still to visit
   are distinct, none of them has been mapped, and the call has sent no
   more requests than it has visited URLs. *)
C29_EachUrlOnce ==
    /\ \A t \in Tasks :
          LET tk == tasks[t]
              all == extract_image_urls(extract_markdown(CurItem(tk)))
              visited == Cardinality(all) - Len(tk.urls)
          IN  tk.pc \in {"dl", "send", "dl_exists", "dl_write"} =>
                 /\ Cardinality(Range(tk.urls)) = Len(tk.urls)
                 /\ Range(tk.urls) \subseteq all
                 /\ \A r \in tk.repl : r.url \notin Range(tk.urls)
                 /\ tk.eff.net <= visited + (IF tk.pc \in {"dl_exists", "dl_write"} THEN 1 ELSE 0)
    /\ \A c \in Returned : CallRet(c).eff.net <= Cardinality(CallUrls(c))

\* an article that shows one image twice has been stored with one request,
\* and both occurrences point at the local file
C29_Witness ==
    \E c \in Returned :
        /\ CallItem(c) = ItemTwice
        /\ ~CallRet(c).hit
        /\ CallRet(c).eff.net = 1
        /\ IsSome(CallRet(c).res)
        /\ Len(Unwrap(CallRet(c).res)) = 2
        /\ \A n \in 1..2 : StartsAt(Unwrap(CallRet(c).res)[n].s, 1, Lit("/images/"))

----------------------------------------------------------------------------
\* store_channel of task t has returned the error of its k-th item
FailedAt(t, k) ==
    /\ tasks[t].pc = "done"
    /\ tasks[t].res = "err"
    /\ Len(tasks[t].rets) = k
    /\ ~IsSome(tasks[t].rets[k].res)

(* C30: store_channel ingests the items in feed order and returns at the
   first item whose store_item fails: every item before it is stored and
   indexed, and the call has done nothing for an item after it. *)
C30_StopsAtFirstFailure ==
    \A t \in Tasks : \A k \in 1..Len(tasks[t].chan) :
        FailedAt(t, k) =>
            /\ \A j \in 1..(k - 1) :
                  /\ IsSome(tasks[t].rets[j].res)
                  /\ Exists(files, CallFile(<<t, j>>))
                  /\ RowsFor(CallFile(<<t, j>>)) >= 1
            /\ tasks[t].i = k

----------------------------------------------------------------------------
(* C38: the text localize_images returns is a function of the input text
   and of the map of replacements: whatever the order in which the entries
   of the map are substituted, the text returned is the same one, also when
   one mapped URL is contained in another. *)
C38_OrderIndependent ==
    IsSome(probe.out) =>
        \A text \in rewritten(probe.markdown, probe.replacements) :
            text = Unwrap(probe.out)

----------------------------------------------------------------------------
\* the map entries download_image can return for the images of a text
LocalEntries(markdown) ==
    {[url |-> url, local |-> local_reference(image_filename(url, ct))] :
        url \in extract_image_urls(markdown),
        ct \in {None, Some(Lit("image/png"))}}

\* the texts localize_images can return for a text
LocalizedTexts(markdown) ==
    UNION {rewritten(markdown, repl) :
              repl \in {S \in SUBSET LocalEntries(markdown) :
                           \A e, f \in S : e.url = f.url => e = f}}

\* the article view of the terminal interface opened on `item` of `feed`
OpenedOn(feed, item) ==
    load_markdown_for_selected(
        [NoApp EXCEPT !.current_screen = "Items", !.current_items = <<item>>,
                      !.item_markdown = <<None>>, !.item_state = Some(0),
                      !.current_feed_name = Some(feed.name),
                      !.current_feed_url = Some(feed.url)])

(* C39: a store_item call that converts an item with neither a content nor
   a description payload and returns success has written an empty artifact
   and appended the item's index row; from then on a read of the item
   returns the empty text, present, which the server answers as
   'No content.' and the article view shows as 'No content.', not as
   'still processing'.  A call that converts an item with both payloads
   returns a text converted from the content payload. *)
C39_EmptyItemIngested ==
    \A c \in Returned :
        (~CallRet(c).hit /\ IsSome(CallRet(c).res)) =>
            LET item == CallItem(c)
                feed == CallFeed(c)
                text == Unwrap(CallRet(c).res)
            IN  /\ (~IsSome(item.content) /\ ~IsSome(item.description)) =>
                      /\ text = <<>>
                      /\ CallRet(c).eff.art = 1
                      /\ CallRet(c).eff.idx = 1
                      /\ index_row(feed, item) \in Range(index)
                      /\ read_item_markdown(feed, item) = Some(<<>>)
                      /\ item_response(feed, <<item>>, 0) =
                            JsonOk(ItemContent(item, NoContentHtml))
                      /\ article_body(OpenedOn(feed, item)) = NoContentLine
                /\ (IsSome(item.content) /\ IsSome(item.description)) =>
                      text \in LocalizedTexts(html_to_markdown(Unwrap(item.content)))

\* an item without payloads and an item with both have been converted and
\* stored
C39_Witness ==
    /\ \E c \in Returned :
          /\ ~CallRet(c).hit /\ IsSome(CallRet(c).res)
          /\ CallItem(c) = ItemEmpty
    /\ \E c \in Returned :
          /\ ~CallRet(c).hit /\ IsSome(CallRet(c).res)
          /\ IsSome(CallItem(c).content) /\ IsSome(CallItem(c).description)

----------------------------------------------------------------------------
(* The cache specifications: the server with several clients, whose
   requests run one at a time (SpecCacheSeq) or interleaved at the awaits
   of get_or_fetch_channel (SpecCache); server.rs 185-204.  The store
   tasks that get_feed spawns are left pending: which channel a handler
   holds does not depend on them. *)

MaxClients == 2

\* the clients of the interleaved runs, and those of the sequential runs
Clients == 1..MaxClients
SeqClients == 1..(MaxClients + 1)

\* the handler of a request is running
InFlight(r) == reqs[r].pc \notin {"idle", "done"}

InitCache ==
    /\ files = EmptyMap
    /\ images = EmptyMap
    /\ index = <<HeaderRow>>
    /\ tasks = [t \in Tasks |-> IdleTask]
    /\ faults = 0
    /\ net = 0
    /\ cache = [n \in 1..Len(ConfigFeeds) |-> None]
    /\ reqs = [r \in Clients |-> IdleReq]
    /\ app = NoApp
    /\ probe = None

InitCacheSeq ==
    /\ files = EmptyMap
    /\ images = EmptyMap
    /\ index = <<HeaderRow>>
    /\ tasks = [t \in Tasks |-> IdleTask]
    /\ faults = 0
    /\ net = 0
    /\ cache = [n \in 1..Len(ConfigFeeds) |-> None]
    /\ reqs = [r \in SeqClients |-> IdleReq]
    /\ app = NoApp
    /\ probe = None

NextCache ==
    \/ \E r \in Clients, idx \in 0..Len(ConfigFeeds) : GetFeed(r, idx)
    \/ \E r \in Clients, idx \in 0..Len(ConfigFeeds), item_index \in ItemIndexes :
          GetItem(r, idx, item_index)
    \/ \E r \in Clients : CacheLook(r)
    \/ \E r \in Clients : FetchFeed(r)
    \/ \E r \in Clients : CacheSet(r)

\* a request is made when no handler is running
NextCacheSeq ==
    \/ \E r \in SeqClients, idx \in 0..Len(ConfigFeeds) :
          (\A u \in SeqClients : ~InFlight(u)) /\ GetFeed(r, idx)
    \/ \E r \in SeqClients, idx \in 0..Len(ConfigFeeds), item_index \in ItemIndexes :
          (\A u \in SeqClients : ~InFlight(u)) /\ GetItem(r, idx, item_index)
    \/ \E r \in SeqClients : CacheLook(r)
    \/ \E r \in SeqClients : FetchFeed(r)
    \/ \E r \in SeqClients : CacheSet(r)

SpecCache == InitCache /\ [][NextCache]_vars

SpecCacheSeq == InitCacheSeq /\ [][NextCacheSeq]_vars

\* what the handler of request rq answers when get_or_fetch_channel has
\* returned `chan`
Answer(rq, chan) ==
    IF rq.kind = "item"
    THEN item_response(ConfigFeeds[rq.index + 1], chan, rq.item_index)
    ELSE JsonOk(channel_to_response(chan))

(* C32: with one request at a time, a filled slot of the cache is never
   changed; a request that finds the slot of its feed filled is answered
   from the channel in the slot, without a fetch; a request that finds it
   empty fetches; and a fetch that fails answers 502 and leaves the slot
   empty. *)
C32_FillOnce ==
    [][/\ \A n \in DOMAIN cache : IsSome(cache[n]) => cache'[n] = cache[n]
       /\ \A r \in SeqClients :
             LET slot == cache[reqs[r].index + 1] IN
             /\ (reqs[r].pc = "lock" /\ reqs'[r] # reqs[r]) =>
                   IF IsSome(slot)
                   THEN /\ reqs'[r].pc = "done"
                        /\ reqs'[r].resp = Answer(reqs[r], Unwrap(slot))
                        /\ cache' = cache
                   ELSE reqs'[r].pc = "fetch"
             /\ (reqs[r].pc = "fetch" /\ reqs'[r].pc = "done") =>
                   /\ reqs'[r].resp = BadGateway
                   /\ ~IsSome(slot)
                   /\ cache' = cache]_vars

\* three requests for the feed have been answered: one with 502, so that
\* the slot was empty when it returned, and two from a channel, of which
\* only the earlier one fetched it
C32_Witness ==
    \E a, b, c \in SeqClients :
        /\ reqs[a].pc = "done" /\ reqs[a].resp = BadGateway
        /\ reqs[b].pc = "done" /\ reqs[b].kind = "feed" /\ reqs[b].resp.status = 200
        /\ reqs[c].pc = "done" /\ reqs[c].kind = "item" /\ reqs[c].resp.status = 200
        /\ IsSome(cache[1])


(* C33: with interleaved requests, the channel in a slot of the cache,
   which is the channel every request for that feed is answered from, is
   never replaced once a request has put it there, and a request that has
   fetched the feed finds the slot still empty: the feed is fetched once. *)
C33_OneChannelPerFeed ==
    [][/\ \A n \in DOMAIN cache : IsSome(cache[n]) => cache'[n] = cache[n]
       /\ \A r \in Clients :
             (reqs[r].pc = "set" /\ reqs'[r].pc = "done") =>
                 ~IsSome(cache[reqs[r].index + 1])]_vars

----------------------------------------------------------------------------
(* The terminal interface specification: run_tui on an App built from a
   config (with_config_and_db) or from one channel (with_channel_and_db),
   on an empty store; tui/mod.rs 69-99, 351-361, 400-447 *)

InitTui ==
    /\ files = EmptyMap
    /\ images = EmptyMap
    /\ index = <<HeaderRow>>
    /\ faults = 0
    /\ net = 0
    /\ cache = <<>>
    /\ reqs = [r \in Reqs |-> IdleReq]
    /\ probe = None
    /\ \/ /\ app = with_config_and_db
          /\ tasks = [t \in Tasks |-> IdleTask]
       \/ \E chan \in FeedChannels :
             /\ app = with_channel_and_db(chan, Some(FeedEx.name), Some(FeedEx.url))
             /\ tasks = [t \in Tasks |-> IF t = 1 THEN Entered(FeedEx, chan) ELSE IdleTask]

NextTui ==
    \/ TuiSelect
    \/ TuiBack
    \/ TuiQuit
    \/ TuiNext
    \/ TuiPrevious
    \/ TuiScrollDown
    \/ TuiScrollUp
    \/ \E t \in Tasks : Step(t)

SpecTui == InitTui /\ [][NextTui]_vars


(* C34: in every state of the terminal interface, on the Feeds screen a
   selected feed index is below feeds.len(), and on the Items and Article
   screens a selected item index is below current_items.len(), also after
   a feed without items has been loaded. *)
C34_SelectionInBounds ==
    /\ (app.current_screen = "Feeds" /\ IsSome(app.feed_state)) =>
          Unwrap(app.feed_state) < Len(Feeds(app))
    /\ (app.current_screen \in {"Items", "Article"} /\ IsSome(app.item_state)) =>
          Unwrap(app.item_state) < Len(app.current_items)


\* the feed under which the terminal interface reads its items
TuiFeed(a) ==
    [name |-> UnwrapOr(a.current_feed_name, Lit("Unknown Feed")),
     url |-> UnwrapOr(a.current_feed_url, Lit("unknown"))]

(* C35: item_markdown always has as many slots as current_items has
   entries; when Enter opens the selected item, a slot that holds
   'absent' is set to what the store returns for the item at that moment,
   and a slot that holds a text is left as it is. *)
C35_OneSlotPerItem ==
    [][/\ Len(app.item_markdown) = Len(app.current_items)
       /\ Len(app'.item_markdown) = Len(app'.current_items)
       /\ (app.current_screen = "Items" /\ app'.current_screen = "Article"
           /\ Unwrap(app.item_state) < Len(app.current_items)) =>
             LET n == Unwrap(app.item_state) + 1 IN
             IF IsSome(app.item_markdown[n])
             THEN app'.item_markdown = app.item_markdown
             ELSE app'.item_markdown =
                     [app.item_markdown EXCEPT
                        ![n] = read_item_markdown(TuiFeed(app), app.current_items[n])]]_vars

\* an article is open whose slot holds the text read when it was first
\* opened, while the store now holds another text for the item
C35_Witness ==
    /\ app.current_screen = "Article"
    /\ Unwrap(app.item_state) < Len(app.current_items)
    /\ LET n == Unwrap(app.item_state) + 1 IN
       /\ IsSome(app.item_markdown[n])
       /\ read_item_markdown(TuiFeed(app), app.current_items[n]) # app.item_markdown[n]


(* C36: the screen changes only from Feeds to Items, with a fetched feed
   as the current one; from Items to Article, with a selection and with
   scroll_offset reset to 0; from Article to Items; and from Items to
   Feeds, only with a config, the current feed, its items and the
   markdown being cleared.  Esc on Feeds and q outside Article set
   should_quit, Esc and q on Article lead to Items, and Esc on Items
   without a config changes nothing. *)
C36_ScreenTransitions ==
    [][/\ app'.current_screen # app.current_screen =>
             \/ /\ app.current_screen = "Feeds" /\ app'.current_screen = "Items"
                /\ IsSome(app'.current_feed)
                /\ app'.current_items = Unwrap(app'.current_feed)
             \/ /\ app.current_screen = "Items" /\ app'.current_screen = "Article"
                /\ IsSome(app.item_state)
                /\ app'.scroll_offset = 0
             \/ /\ app.current_screen = "Article" /\ app'.current_screen = "Items"
             \/ /\ app.current_screen = "Items" /\ app'.current_screen = "Feeds"
                /\ app.config
                /\ app'.current_feed = None
                /\ app'.current_items = <<>>
                /\ app'.item_markdown = <<>>
       /\ (TuiBack /\ app.current_screen = "Feeds") => app'.should_quit
       /\ (TuiQuit /\ app.current_screen # "Article") => app'.should_quit
       /\ ((TuiBack \/ TuiQuit) /\ app.current_screen = "Article") =>
             app'.current_screen = "Items" /\ ~app'.should_quit
       /\ (app.current_screen = "Items" /\ ~app.config) => back(app) = app]_vars

\* with a config, the interface is back on the feed list after a feed was
\* opened and one of its articles read
C36_Witness ==
    /\ app.config
    /\ app.current_screen = "Feeds"
    /\ app.status_message = Lit("Select a feed")
    /\ app.scroll_offset > 0


(* C37: when select has returned on the Feeds screen, is_loading is false,
   whether the fetch succeeded or failed, a missing RSSHub host included;
   after a failure the screen is still Feeds, current_feed, current_items
   and item_markdown are what they were, no store_channel task has been
   spawned, and status_message starts with 'Error:'. *)
C37_SelectFailure ==
    [][(TuiSelect /\ app.current_screen = "Feeds") =>
          /\ ~app'.is_loading
          /\ app'.current_screen \in {"Feeds", "Items"}
          /\ app'.current_screen = "Feeds" =>
                /\ app'.current_feed = app.current_feed
                /\ app'.current_items = app.current_items
                /\ app'.item_markdown = app.item_markdown
                /\ tasks' = tasks
                /\ StartsWith(app'.status_message, <<Chr("Error:")>>)]_vars

\* select has returned after fetch_feed found no RSSHub host
C37_Witness ==
    /\ app.current_screen = "Feeds"
    /\ ~app.is_loading
    /\ app.status_message = ErrorStatus("RSSHub host missing for feed")

----------------------------------------------------------------------------
(* The ingestion specification: the server with one client, in which no
   filesystem operation fails (the failures the model allows have been
   used up), every image request is answered, and every spawned
   store_channel task is scheduled fairly; server.rs 114-204, db.rs 68-125 *)

InitIngest ==
    /\ files = EmptyMap
    /\ images = EmptyMap
    /\ index = <<HeaderRow>>
    /\ tasks = [t \in Tasks |-> IdleTask]
    /\ faults = MaxFaults
    /\ net = 0
    /\ cache = [n \in 1..Len(ConfigFeeds) |-> None]
    /\ reqs = [r \in Reqs |-> IdleReq]
    /\ app = NoApp
    /\ probe = None

NextIngest ==
    \/ \E r \in Reqs, idx \in 0..Len(ConfigFeeds) : GetFeed(r, idx)
    \/ \E r \in Reqs, idx \in 0..Len(ConfigFeeds), item_index \in ItemIndexes :
          GetItem(r, idx, item_index)
    \/ \E r \in Reqs : CacheLook(r)
    \/ \E r \in Reqs : FetchFeed(r)
    \/ \E r \in Reqs : CacheSet(r)
    \/ \E t \in Tasks : Step(t)

SpecIngest ==
    /\ InitIngest
    /\ [][NextIngest]_vars
    /\ \A t \in Tasks : WF_vars(Step(t))

\* get_feed has answered request r with the listing of a channel
FeedServed(r) ==
    /\ reqs[r].pc = "done"
    /\ reqs[r].kind = "feed"
    /\ reqs[r].resp.status = 200

\* get_item no longer answers 'still processing' for any item of the
\* channel of the feed at `idx`
AllReadable(idx) ==
    /\ IsSome(cache[idx + 1])
    /\ \A n \in 0..(Len(Unwrap(cache[idx + 1])) - 1) :
          item_response(ConfigFeeds[idx + 1], Unwrap(cache[idx + 1]), n) #
             JsonOk(ItemContent(Unwrap(cache[idx + 1])[n + 1], StillProcessingHtml))

(* C31: once get_feed has returned a feed's listing, then, no filesystem
   operation failing, every image request being answered and the spawned
   store_channel task being scheduled fairly, get_item eventually stops
   answering 'still processing' for every item of the feed's channel. *)
C31_EventuallyReadable ==
    \A r \in Reqs, idx \in 0..(Len(ConfigFeeds) - 1) :
        (FeedServed(r) /\ reqs[r].index = idx) ~> AllReadable(idx)
====
